---- MODULE Spec2Model ----
(***************************************************************************)
(* A model of the Covr OCR parse service (src/ocr_parse_service/app):       *)
(*   - the verification orchestrator and its two providers                  *)
(*     (verifier/__init__.py, verifier/google_books.py,                     *)
(*      verifier/open_library.py, similarity.py),                           *)
(*   - the line normalizer (normalize.py),                                  *)
(*   - the candidate ranker (ranker.py),                                    *)
(*   - the two endpoints /parse and /parse/batch (routers/parse.py).        *)
(*                                                                          *)
(* Each of the first three components has its own specification over its    *)
(* own state record: SpecVerify (vc), SpecNorm (nz), SpecRank (rk).  A      *)
(* record holds the locals of the function that is running, named as in    *)
(* the source, and a program counter.  SpecService runs a request through   *)
(* an endpoint (ep), which calls the normalizer, the ranker and the         *)
(* verifier in their records.  SpecPair runs two /parse requests in one     *)
(* event loop: vc is then the pair of their verify_candidates frames and ep *)
(* holds the process's objects.                                             *)
(*                                                                          *)
(* Arithmetic.  The source computes with floats; the model computes the    *)
(* same quantities exactly, as integers in a fixed unit:                    *)
(*   similarity scores      1 = 0.0001  (0.6 is 6000)                       *)
(*   similarities, weights  1 = 0.01    (a percentage)                      *)
(***************************************************************************)
EXTENDS Integers, Sequences, FiniteSets, TLC

VARIABLES vc, nz, rk, ep

vars == <<vc, nz, rk, ep>>

(***************************************************************************)
(* Values shared by the components.                                        *)
(***************************************************************************)

\* Python's None for an Optional[str].
NONE == "<none>"

\* Python truthiness of an Optional[str]: None and "" are falsy.
Truthy(s) == s # NONE /\ s # ""

\* Python's None for an Optional[float] that is otherwise >= 0.
NoFloat == -1

Max2(a, b) == IF a >= b THEN a ELSE b

Min2(a, b) == IF a <= b THEN a ELSE b

Abs(a) == IF a >= 0 THEN a ELSE 0 - a

\* All sequences over S of length at most n.
SeqsUpTo(S, n) == UNION {[1..k -> S] : k \in 0..n}

(***************************************************************************)
(*                      VERIFICATION  (app/verifier)                       *)
(***************************************************************************)

\* ---- bounds of the verification model ----

\* Longest verify_provider_order drawn exhaustively.
MaxOrderLen == 1

\* Most hits in one provider response (the source asks for at most 5).
MaxHits == 1

\* ---- program constants ----

\* verify_candidates: max_queries = min(settings.max_verify_queries, 6)
QueryCap == 6

\* verify_*: "if best_match and best_score >= 0.6"
MatchThreshold == 6000

\* verify_*: "if best_score < 0.7 and title and queries_made < max_queries"
TitleOnlyThreshold == 7000

\* weighted_similarity: title_weight default 0.6
DefaultTitleWeight == 60

\* verify_*: weighted_similarity(..., title_weight=0.8) for the title-only query
TitleOnlyWeight == 80

\* ---- inputs ----

GOOGLE == "google_books"

OPENLIB == "open_library"

\* A name verify_candidates does not know.
UNKNOWN == "isbndb"

ProviderNames == {GOOGLE, OPENLIB, UNKNOWN}

\* ParseSettings.verify_provider_order's default (models.py line 77).
DefaultOrder == <<GOOGLE, OPENLIB>>

\* The provider orders a call is drawn from: every order of at most MaxOrderLen
\* names (the empty one selects the default), the default written out and
\* reversed, and orders with a repeated and with an unknown name.
ProviderOrders ==
    SeqsUpTo(ProviderNames, MaxOrderLen)
        \cup {DefaultOrder, <<OPENLIB, GOOGLE>>, <<GOOGLE, GOOGLE>>,
              <<UNKNOWN, OPENLIB>>}

\* settings.max_verify_queries (an int, unconstrained by ParseSettings).
VerifyQueryBudgets == {-1, 0, 1, 2, 3, 7}

\* title and author as rank_candidates hands them over.
Titles == {NONE, "", "Dune"}

Authors == {NONE, "", "Frank Herbert"}

\* A hit of a provider response (an item of "items" / "docs").  tsim and asim
\* are token_set_ratio of a non-empty candidate title / author against the
\* hit's title / first author, in percent; they are data of the catalogue.
\* wellformed is whether VerificationCanonical accepts the hit's fields
\* (title: str, author: str): a hit whose first author is null has asim = 0
\* and is rejected by the model class with a ValidationError.
HitExact     == [id |-> "exact",      tsim |-> 100, asim |-> 100, wellformed |-> TRUE]

HitTitleOnly == [id |-> "titleonly",  tsim |-> 100, asim |-> 0,   wellformed |-> TRUE]

HitWeak      == [id |-> "weak",       tsim |-> 50,  asim |-> 50,  wellformed |-> TRUE]

HitNullAuthor == [id |-> "nullauthor", tsim |-> 100, asim |-> 0,  wellformed |-> FALSE]

Hits == {HitExact, HitTitleOnly, HitWeak, HitNullAuthor}

NoHit == [id |-> "<none>", tsim |-> 0, asim |-> 0, wellformed |-> FALSE]

\* What "await client.get(...)" followed by the processing of the response can
\* do: raise httpx.TimeoutException, raise another exception, or return a
\* response with a status code; a 200 response carries hits, or a body whose
\* decoding raises.
QueryOutcomes ==
    {[kind |-> "timeout", status |-> 0, hits |-> <<>>],
     [kind |-> "error", status |-> 0, hits |-> <<>>],
     [kind |-> "response", status |-> 429, hits |-> <<>>],
     [kind |-> "response", status |-> 500, hits |-> <<>>],
     [kind |-> "badbody", status |-> 200, hits |-> <<>>]}
        \cup {[kind |-> "response", status |-> 200, hits |-> h] : h \in SeqsUpTo(Hits, MaxHits)}

\* ---- similarity.py ----

\* token_set_ratio(s1, s2): 0.0 when either string is empty, else the ratio of
\* the two strings, which for a hit is the datum sim.
token_set_ratio(s1, sim) == IF ~Truthy(s1) THEN 0 ELSE sim

\* weighted_similarity(title1, title2, author1, author2, title_weight)
weighted_similarity(title, tsim, author, asim, title_weight) ==
    title_weight * token_set_ratio(title, tsim)
        + (100 - title_weight) * token_set_ratio(author, asim)

\* ---- the provider's notes ----

ProviderLabel(p) == IF p = GOOGLE THEN "Google Books" ELSE "Open Library"

\* A note is the text the source formats, kept as its parts.
Note(p, what, code) == [who |-> ProviderLabel(p), what |-> what, code |-> code]

NoteTimeout(p) == Note(p, "request timed out", 0)

NoteError(p) == Note(p, "error", 0)

NoteStatus(p, code) == Note(p, "returned", code)

NoteRateLimited(p) == Note(p, "rate limited", 0)

NoteTitleOnlyError(p) == Note(p, "title-only error", 0)

NoteNoInput == [who |-> "verify_candidates", what |-> "No title or author to verify", code |-> 0]

NoteNoMatch == [who |-> "verify_candidates", what |-> "No match found in any provider", code |-> 0]

\* ---- the result records ----

NoCanonical == [isnone |-> TRUE]

\* VerificationCanonical(title=..., author=..., isbn13=..., source_id=...)
VerificationCanonical(provider, hit) ==
    [isnone |-> FALSE, provider |-> provider, source_id |-> hit.id]

NoDebug == [isnone |-> TRUE, queries |-> <<>>, top_hits |-> <<>>]

\* VerificationDebug(queries=all_queries, top_hits=top_hits)
VerificationDebug(queries, top_hits) ==
    [isnone |-> FALSE, queries |-> queries, top_hits |-> top_hits]

\* Verification(...) with the model's defaults for the fields left out.
Verification(attempted, matched, provider, match_confidence, canonical, notes, debug) ==
    [attempted |-> attempted, matched |-> matched, provider |-> provider,
     match_confidence |-> match_confidence, canonical |-> canonical,
     notes |-> notes, debug |-> debug]

NoResult ==
    [attempted |-> FALSE, matched |-> FALSE, provider |-> "<no result>",
     match_confidence |-> NoFloat, canonical |-> NoCanonical,
     notes |-> <<>>, debug |-> NoDebug]

\* ---- the state of one verify_candidates call ----

\* The call before its first statement.  The fields are the locals of
\* verify_candidates (provider_order .. top_hits, i the position of the for
\* loop), the locals of the provider that is running (p_*), the value returned
\* (result), and five history fields: issued counts the HTTP requests sent,
\* p_issued those sent by the provider called last and p_given the budget it
\* was called with, invoked lists the providers called, raised tells that an
\* exception left verify_candidates.
VerifyCall(title, author, order, budget) ==
    [pc |-> "call",
     title |-> title, author |-> author,
     settings |-> [verify_provider_order |-> order, max_verify_queries |-> budget],
     provider_order |-> <<>>, max_queries |-> 0, queries_made |-> 0,
     all_queries |-> <<>>, top_hits |-> <<>>, i |-> 1,
     p_name |-> NONE, p_max_queries |-> 0, p_queries_made |-> 0, p_notes |-> <<>>,
     p_best_score |-> 0, p_best_match |-> NoHit,
     result |-> NoResult,
     issued |-> 0, p_issued |-> 0, p_given |-> 0, invoked |-> <<>>, raised |-> FALSE]

\* The value of vc while no verify_candidates call is running.
VcIdle == [VerifyCall(NONE, NONE, <<>>, 0) EXCEPT !.pc = "idle"]

\* ---- verifier/__init__.py: verify_candidates ----

\* verify_candidates_enter with the early return taken for None only, not for "".
verify_candidates_enter_NoneOnly(v) ==
    IF v.title = NONE /\ v.author = NONE
    THEN [v EXCEPT !.pc = "done",
                   !.result = Verification(FALSE, FALSE, NONE, NoFloat, NoCanonical,
                                           <<NoteNoInput>>, NoDebug)]
    ELSE [v EXCEPT !.pc = "loop",
                   !.provider_order =
                       IF v.settings.verify_provider_order # <<>>
                       THEN v.settings.verify_provider_order
                       ELSE DefaultOrder,
                   !.max_queries = Min2(v.settings.max_verify_queries, QueryCap),
                   !.queries_made = 0, !.all_queries = <<>>, !.top_hits = <<>>,
                   !.i = 1]

\* Lines 19-28: the early return when there is nothing to verify, else the
\* provider order, the budget and the empty logs.
verify_candidates_enter(v) ==
    IF ~Truthy(v.title) /\ ~Truthy(v.author)
    THEN [v EXCEPT !.pc = "done",
                   !.result = Verification(FALSE, FALSE, NONE, NoFloat, NoCanonical,
                                           <<NoteNoInput>>, NoDebug)]
    ELSE [v EXCEPT !.pc = "loop",
                   !.provider_order =
                       IF v.settings.verify_provider_order # <<>>
                       THEN v.settings.verify_provider_order
                       ELSE DefaultOrder,
                   !.max_queries = Min2(v.settings.max_verify_queries, QueryCap),
                   !.queries_made = 0, !.all_queries = <<>>, !.top_hits = <<>>,
                   !.i = 1]

\* Lines 69-76: the return after the loop.
verify_candidates_no_match(v) ==
    [v EXCEPT !.pc = "done",
              !.result = Verification(TRUE, FALSE, NONE, NoFloat, NoCanonical,
                                      <<NoteNoMatch>>,
                                      VerificationDebug(v.all_queries, v.top_hits))]

\* Lines 31-33: the for loop is over, or "if queries_made >= max_queries: break".
LoopIsOver(v) == v.i > Len(v.provider_order) \/ v.queries_made >= v.max_queries

\* Lines 36-45: the names the if/elif chain dispatches on.
IsKnownProvider(name) == name \in {GOOGLE, OPENLIB}

\* The provider's frame is gone once its call has ended: its locals are dead.
provider_frame_dropped(v) ==
    [v EXCEPT !.p_name = NONE, !.p_max_queries = 0, !.p_queries_made = 0,
              !.p_notes = <<>>, !.p_best_score = 0, !.p_best_match = NoHit]

\* verify_candidates_receive without the return on a match: the result is
\* recorded and the loop goes on.
verify_candidates_receive_NoReturn(v, matched, canonical, match_confidence, queries_made, notes) ==
    LET w == provider_frame_dropped(v)
    IN  [w EXCEPT !.pc = "loop",
                  !.queries_made = v.queries_made + queries_made,
                  !.i = v.i + 1,
                  !.result =
                      IF matched
                      THEN Verification(TRUE, TRUE, v.provider_order[v.i],
                                        match_confidence, canonical, notes,
                                        VerificationDebug(v.all_queries, v.top_hits))
                      ELSE v.result]

\* Lines 47-62: what verify_candidates does with the dict a provider returned.
verify_candidates_receive(v, matched, canonical, match_confidence, queries_made, notes) ==
    LET w == provider_frame_dropped(v)
    IN  IF matched
        THEN [w EXCEPT !.pc = "done",
                       !.queries_made = v.queries_made + queries_made,
                       !.result = Verification(TRUE, TRUE, v.provider_order[v.i],
                                               match_confidence, canonical, notes,
                                               VerificationDebug(v.all_queries, v.top_hits))]
        ELSE [w EXCEPT !.pc = "loop",
                       !.queries_made = v.queries_made + queries_made,
                       !.i = v.i + 1]

\* verify_candidates_except without the except clause: the exception leaves
\* verify_candidates.
verify_candidates_except_Propagates(v) ==
    [provider_frame_dropped(v) EXCEPT !.pc = "done", !.raised = TRUE]

\* Lines 64-67: an exception left the provider call.
verify_candidates_except(v) ==
    LET w == provider_frame_dropped(v)
    IN  [w EXCEPT !.pc = "loop",
                  !.all_queries = Append(v.all_queries,
                                         [provider |-> v.provider_order[v.i], type |-> "error"]),
                  !.i = v.i + 1]

\* ---- verifier/google_books.py, verifier/open_library.py ----

\* Lines 18-24 of either provider, called with the remaining budget
\* (__init__.py lines 37-43).
verify_provider_enter(v) ==
    LET name == v.provider_order[v.i]
        w == [v EXCEPT !.invoked = Append(v.invoked, name),
                       !.p_name = name,
                       !.p_max_queries = v.max_queries - v.queries_made,
                       !.p_queries_made = 0, !.p_notes = <<>>,
                       !.p_best_score = 0, !.p_best_match = NoHit,
                       !.p_issued = 0, !.p_given = v.max_queries - v.queries_made]
    IN  IF ~Truthy(v.title) /\ ~Truthy(v.author)
        THEN verify_candidates_receive(w, FALSE, NoCanonical, 0, 0, <<>>)
        ELSE [w EXCEPT !.pc = "strict"]

\* The loop over the items of a 200 response (google_books.py lines 42-68 and
\* 96-122): every hit is scored and logged, and a hit that scores strictly
\* higher than the best so far replaces it.
RECURSIVE score_hits(_, _, _, _, _)
score_hits(v, hits, k, author, title_weight) ==
    IF k > Len(hits)
    THEN v
    ELSE LET hit == hits[k]
             score == weighted_similarity(v.title, hit.tsim, author, hit.asim, title_weight)
             logged == [v EXCEPT !.top_hits =
                            Append(v.top_hits,
                                   [provider |-> v.p_name, hit |-> hit.id, score |-> score])]
             best == IF score > v.p_best_score
                     THEN [logged EXCEPT !.p_best_score = score, !.p_best_match = hit]
                     ELSE logged
         IN  score_hits(best, hits, k + 1, author, title_weight)

\* "queries_made += 1; all_queries.append({...})" after client.get returned.
count_query(v, type) ==
    [v EXCEPT !.p_queries_made = v.p_queries_made + 1,
              !.all_queries = Append(v.all_queries, [provider |-> v.p_name, type |-> type])]

\* Line 27: the guard of the strict query.
StrictGuard(v) == Truthy(v.title) /\ Truthy(v.author) /\ v.p_queries_made < v.p_max_queries

\* Lines 28-79: the strict query and what each outcome of it leads to.
verify_provider_strict(v, outcome) ==
    LET sent == [v EXCEPT !.issued = v.issued + 1, !.p_issued = v.p_issued + 1,
                          !.pc = "title_only"]
    IN  CASE outcome.kind = "timeout" ->
                [sent EXCEPT !.p_notes = Append(v.p_notes, NoteTimeout(v.p_name))]
          [] outcome.kind = "error" ->
                [sent EXCEPT !.p_notes = Append(v.p_notes, NoteError(v.p_name))]
          [] outcome.kind = "badbody" ->
                LET c == count_query(sent, "strict")
                IN  [c EXCEPT !.p_notes = Append(v.p_notes, NoteError(v.p_name))]
          [] OTHER ->
                LET c == count_query(sent, "strict")
                IN  IF outcome.status = 200
                    THEN score_hits(c, outcome.hits, 1, v.author, DefaultTitleWeight)
                    ELSE IF v.p_name = GOOGLE /\ outcome.status = 429
                    THEN \* google_books.py lines 70-72: return at once, unmatched
                         verify_candidates_receive(
                             c, FALSE, NoCanonical, 0, c.p_queries_made,
                             Append(v.p_notes, NoteRateLimited(v.p_name)))
                    ELSE [c EXCEPT !.p_notes =
                              Append(v.p_notes, NoteStatus(v.p_name, outcome.status))]

\* TitleOnlyGuard without the test of the title.
TitleOnlyGuard_AnyTitle(v) ==
    v.p_best_score < TitleOnlyThreshold /\ v.p_queries_made < v.p_max_queries

\* Line 82: the guard of the title-only query.
TitleOnlyGuard(v) ==
    v.p_best_score < TitleOnlyThreshold /\ Truthy(v.title)
        /\ v.p_queries_made < v.p_max_queries

\* IsMatch with the threshold at 0.5.
IsMatch_Loose(v) == v.p_best_match # NoHit /\ v.p_best_score >= 5000

\* Line 128: "if best_match and best_score >= 0.6".
IsMatch(v) == v.p_best_match # NoHit /\ v.p_best_score >= MatchThreshold

\* Lines 127-143, then __init__.py lines 47-67: the provider builds its result
\* and verify_candidates receives it.  Building the canonical record raises for
\* a hit the model class rejects, and the exception reaches the except clause
\* of verify_candidates.
verify_provider_return(v) ==
    IF IsMatch(v)
    THEN IF v.p_best_match.wellformed
         THEN verify_candidates_receive(
                  v, TRUE, VerificationCanonical(v.p_name, v.p_best_match),
                  v.p_best_score, v.p_queries_made, v.p_notes)
         ELSE verify_candidates_except(v)
    ELSE verify_candidates_receive(v, FALSE, NoCanonical, 0, v.p_queries_made, v.p_notes)

\* Lines 83-125: the title-only query.  Any exception ends in the same note;
\* a status other than 200 is ignored.  The provider then returns (no await
\* lies between the response and the return).
verify_provider_title_only(v, outcome) ==
    LET sent == [v EXCEPT !.issued = v.issued + 1, !.p_issued = v.p_issued + 1]
    IN  verify_provider_return(
          CASE outcome.kind \in {"timeout", "error"} ->
                [sent EXCEPT !.p_notes = Append(v.p_notes, NoteTitleOnlyError(v.p_name))]
            [] outcome.kind = "badbody" ->
                LET c == count_query(sent, "title_only")
                IN  [c EXCEPT !.p_notes = Append(v.p_notes, NoteTitleOnlyError(v.p_name))]
            [] OTHER ->
                LET c == count_query(sent, "title_only")
                IN  IF outcome.status = 200
                    THEN score_hits(c, outcome.hits, 1,
                                    IF v.author = NONE THEN "" ELSE v.author,
                                    TitleOnlyWeight)
                    ELSE c)

\* ---- the actions of a verification call ----

VerifyEnter ==
    /\ vc.pc = "call"
    /\ vc' = verify_candidates_enter(vc)
    /\ UNCHANGED <<nz, rk, ep>>

VerifyLoopExit ==
    /\ vc.pc = "loop"
    /\ LoopIsOver(vc)
    /\ vc' = verify_candidates_no_match(vc)
    /\ UNCHANGED <<nz, rk, ep>>

VerifySkipUnknown ==
    /\ vc.pc = "loop"
    /\ ~LoopIsOver(vc)
    /\ ~IsKnownProvider(vc.provider_order[vc.i])
    /\ vc' = [vc EXCEPT !.i = vc.i + 1]
    /\ UNCHANGED <<nz, rk, ep>>

VerifyCallProvider ==
    /\ vc.pc = "loop"
    /\ ~LoopIsOver(vc)
    /\ IsKnownProvider(vc.provider_order[vc.i])
    /\ vc' = verify_provider_enter(vc)
    /\ UNCHANGED <<nz, rk, ep>>

VerifyStrictQuery ==
    /\ vc.pc = "strict"
    /\ StrictGuard(vc)
    /\ \E outcome \in QueryOutcomes : vc' = verify_provider_strict(vc, outcome)
    /\ UNCHANGED <<nz, rk, ep>>

VerifyStrictSkip ==
    /\ vc.pc = "strict"
    /\ ~StrictGuard(vc)
    /\ vc' = [vc EXCEPT !.pc = "title_only"]
    /\ UNCHANGED <<nz, rk, ep>>

VerifyTitleOnlyQuery ==
    /\ vc.pc = "title_only"
    /\ TitleOnlyGuard(vc)
    /\ \E outcome \in QueryOutcomes : vc' = verify_provider_title_only(vc, outcome)
    /\ UNCHANGED <<nz, rk, ep>>

VerifyTitleOnlySkip ==
    /\ vc.pc = "title_only"
    /\ ~TitleOnlyGuard(vc)
    /\ vc' = verify_provider_return(vc)
    /\ UNCHANGED <<nz, rk, ep>>

NextVerify ==
    \/ VerifyEnter
    \/ VerifyLoopExit
    \/ VerifySkipUnknown
    \/ VerifyCallProvider
    \/ VerifyStrictQuery
    \/ VerifyStrictSkip
    \/ VerifyTitleOnlyQuery
    \/ VerifyTitleOnlySkip

NzIdle == [pc |-> "idle"]

RkIdle == [pc |-> "idle"]

EpIdle == [pc |-> "idle"]

InitVerify ==
    /\ \E title \in Titles, author \in Authors, order \in ProviderOrders,
          budget \in VerifyQueryBudgets :
            vc = VerifyCall(title, author, order, budget)
    /\ nz = NzIdle
    /\ rk = RkIdle
    /\ ep = EpIdle

SpecVerify == InitVerify /\ [][NextVerify]_vars

(***************************************************************************)
(* Claims about verification, checked under SpecVerify.                    *)
(***************************************************************************)

\* The budget of a call: min(max_verify_queries, 6), and no less than none.
QueryBudget == Max2(0, Min2(vc.settings.max_verify_queries, QueryCap))

VerifyDone == vc.pc = "done"

\* The known providers among the first j names of the order.
KnownPrefix(j) == SelectSeq(SubSeq(vc.provider_order, 1, j), IsKnownProvider)

\* The entries of a query log that stand for a query (not for an exception).
QueryEntries(log) == SelectSeq(log, LAMBDA q : q.type # "error")

\* C1: in one verify_candidates call the HTTP queries issued across all
\* providers never exceed min(max_verify_queries, 6), whatever the providers
\* answer, and neither do the query entries of debug.queries.
C1_QueriesWithinBudget ==
    /\ vc.issued <= QueryBudget
    /\ Len(QueryEntries(vc.all_queries)) <= QueryBudget
    /\ Len(QueryEntries(vc.result.debug.queries)) <= QueryBudget

\* C2: a result with matched = true carries a canonical record and a
\* match_confidence of at least 0.6, and that confidence is the score of a hit
\* the matching provider logged for the canonical volume.
C2_MatchedMeansCanonicalAndThreshold ==
    vc.result.matched =>
        /\ ~vc.result.canonical.isnone
        /\ vc.result.match_confidence >= MatchThreshold
        /\ \E k \in DOMAIN vc.result.debug.top_hits :
              LET h == vc.result.debug.top_hits[k]
              IN  /\ h.provider = vc.result.provider
                  /\ h.hit = vc.result.canonical.source_id
                  /\ h.score = vc.result.match_confidence

\* C2's case: a call that ended matched exactly at the threshold.
C2_Witness ==
    VerifyDone /\ vc.result.matched /\ vc.result.match_confidence = MatchThreshold

\* C3: the providers are invoked one after another in the configured order
\* (the providers invoked so far are the known names of a prefix of the
\* order); a match is returned under the name of the provider invoked last,
\* with that provider's canonical record; and once a match is reported no
\* provider is invoked and no query is issued any more.
C3_FirstMatchWins ==
    /\ [](vc.pc # "call" =>
            /\ \E j \in 0..Len(vc.provider_order) : vc.invoked = KnownPrefix(j)
            /\ vc.result.matched =>
                  /\ VerifyDone
                  /\ vc.invoked # <<>>
                  /\ vc.result.provider = vc.invoked[Len(vc.invoked)]
                  /\ vc.result.provider = vc.provider_order[vc.i]
                  /\ vc.result.canonical.provider = vc.result.provider)
    /\ [][vc.result.matched =>
            (vc'.issued = vc.issued /\ vc'.invoked = vc.invoked /\ vc'.result = vc.result)]_vars

\* C3's case: a match by a provider that a known provider follows in the order.
C3_Witness ==
    /\ VerifyDone
    /\ vc.result.matched
    /\ vc.i < Len(vc.provider_order)
    /\ IsKnownProvider(vc.provider_order[vc.i + 1])

\* A request that was sent and never counted: client.get raised.
SomeQueryFailed == vc.issued > Len(QueryEntries(vc.all_queries))

\* An exception left a provider call.
SomeProviderRaised == \E k \in DOMAIN vc.all_queries : vc.all_queries[k].type = "error"

\* C4: a provider failure never aborts verification: no exception leaves
\* verify_candidates, a call with a title or an author ends with
\* attempted = true, and a call that ends without a match has invoked every
\* known provider of the order unless the query budget was used up.
C4_FailureNeverAborts ==
    /\ ~vc.raised
    /\ VerifyDone /\ (Truthy(vc.title) \/ Truthy(vc.author)) => vc.result.attempted
    /\ VerifyDone /\ vc.result.attempted /\ ~vc.result.matched =>
          \/ vc.invoked = KnownPrefix(Len(vc.provider_order))
          \/ vc.queries_made >= vc.max_queries

\* C4's case: a provider raised, a request timed out or failed, the provider
\* after the one that raised was queried, and the call ended with
\* attempted = true.
C4_Witness ==
    /\ VerifyDone
    /\ vc.result.attempted
    /\ Len(vc.invoked) = 2
    /\ SomeQueryFailed
    /\ \E k \in DOMAIN vc.all_queries :
          vc.all_queries[k].type = "error" /\ k < Len(vc.all_queries)

\* C5: with title and author both absent (None or empty) no provider is
\* invoked, no query is issued, and the call returns attempted = false and
\* matched = false.
C5_NothingToVerify ==
    ~Truthy(vc.title) /\ ~Truthy(vc.author) =>
        /\ vc.issued = 0
        /\ vc.invoked = <<>>
        /\ vc.all_queries = <<>>
        /\ VerifyDone => ~vc.result.attempted /\ ~vc.result.matched

\* C5's case: a finished call with an empty title and no author.
C5_Witness == VerifyDone /\ vc.title = "" /\ vc.author = NONE

(***************************************************************************)
(*                         TEXT  (Python str)                              *)
(*                                                                         *)
(* A str is a sequence of one-character strings, so that upper(), strip(), *)
(* split(), "in" and the regular expressions are computed character by     *)
(* character.  None is the one-element sequence NoText.                    *)
(***************************************************************************)

LowerLetters ==
    <<"a", "b", "c", "d", "e", "f", "g", "h", "i", "j", "k", "l", "m",
      "n", "o", "p", "q", "r", "s", "t", "u", "v", "w", "x", "y", "z">>

UpperLetters ==
    <<"A", "B", "C", "D", "E", "F", "G", "H", "I", "J", "K", "L", "M",
      "N", "O", "P", "Q", "R", "S", "T", "U", "V", "W", "X", "Y", "Z">>

Range(s) == {s[k] : k \in DOMAIN s}

LowerSet == Range(LowerLetters)

UpperSet == Range(UpperLetters)

DigitSet == {"0", "1", "2", "3", "4", "5", "6", "7", "8", "9"}

WhitespaceSet == {" ", "\t", "\n"}

\* None for an Optional[str] held as a character sequence.
NoText == <<NONE>>

isupper(c) == c \in UpperSet

islower(c) == c \in LowerSet

isalpha(c) == isupper(c) \/ islower(c)

isdigit(c) == c \in DigitSet

isspace(c) == c \in WhitespaceSet

upper(c) == IF islower(c) THEN UpperLetters[CHOOSE k \in 1..26 : LowerLetters[k] = c] ELSE c

lower(c) == IF isupper(c) THEN LowerLetters[CHOOSE k \in 1..26 : UpperLetters[k] = c] ELSE c

\* str.upper() and str.lower().
str_upper(s) == [k \in 1..Len(s) |-> upper(s[k])]

str_lower(s) == [k \in 1..Len(s) |-> lower(s[k])]

\* str.isupper(): some cased character, and no lowercase one.
str_isupper(s) ==
    /\ \E k \in DOMAIN s : isupper(s[k])
    /\ \A k \in DOMAIN s : ~islower(s[k])

\* "not text" for an Optional[str].
Falsy(s) == s = NoText \/ s = <<>>

\* str.strip(): without the leading and the trailing whitespace.
strip(s) ==
    LET inked == {k \in DOMAIN s : ~isspace(s[k])}
    IN  IF inked = {} THEN <<>>
        ELSE SubSeq(s, CHOOSE a \in inked : \A k \in inked : a <= k,
                       CHOOSE b \in inked : \A k \in inked : b >= k)

\* str.split(): the maximal runs of non-whitespace characters, in order.
RECURSIVE split_from(_, _, _)
split_from(s, k, word) ==
    IF k > Len(s) THEN (IF word = <<>> THEN <<>> ELSE <<word>>)
    ELSE IF isspace(s[k])
         THEN (IF word = <<>> THEN <<>> ELSE <<word>>) \o split_from(s, k + 1, <<>>)
         ELSE split_from(s, k + 1, Append(word, s[k]))

split(s) == split_from(s, 1, <<>>)

\* " ".join(parts).
RECURSIVE join(_)
join(parts) ==
    IF parts = <<>> THEN <<>>
    ELSE IF Len(parts) = 1 THEN parts[1]
    ELSE parts[1] \o <<" ">> \o join(Tail(parts))

\* "sub in s".
contains(s, sub) ==
    \E k \in 1..(Len(s) - Len(sub) + 1) : SubSeq(s, k, k + Len(sub) - 1) = sub

\* s.startswith(prefix).
startswith(s, prefix) ==
    Len(s) >= Len(prefix) /\ SubSeq(s, 1, Len(prefix)) = prefix

\* Sum of a sequence of integers.
RECURSIVE sum(_)
sum(s) == IF s = <<>> THEN 0 ELSE s[1] + sum(Tail(s))

(***************************************************************************)
(*                      NORMALIZER  (app/normalize.py)                     *)
(*                                                                         *)
(* Units:  center_x, center_y   1 = 1/2000 of the image side (0.5 is 1000) *)
(*         confidences          1 = 1/16 of a point of the 0-100 scale     *)
(* The inputs are chosen so that every division of the source is exact in  *)
(* these units.                                                            *)
(***************************************************************************)

\* ---- bounds of the normalizer model ----

\* Most lines in one OCR document.
MaxDocLines == 3

\* ---- units and program constants ----

CenterUnit == 2000

ConfUnit == 16

\* Image side assumed when the OCR input carries no image metadata.
DefaultImageSide == 1000

\* ---- the OCR input (app/models.py) ----

Word(text, confidence) == [text |-> text, confidence |-> confidence]

Line(text, words, bbox, confidence) ==
    [text |-> text, words |-> words, bbox |-> bbox, confidence |-> confidence]

Paragraph(lines) == [lines |-> lines]

Block(paragraphs) == [paragraphs |-> paragraphs]

NoImage == [isnone |-> TRUE, width |-> 0, height |-> 0]

ImageInfo(width, height) == [isnone |-> FALSE, width |-> width, height |-> height]

NoChunks == [isnone |-> TRUE, blocks |-> <<>>]

Chunks(blocks) == [isnone |-> FALSE, blocks |-> blocks]

OCRInput(image, chunks) == [image |-> image, chunks |-> chunks]

\* A line with its own text and a confidence.
LineDune ==
    Line(<<"D", "u", "n", "e">>, <<>>, <<100, 100, 400, 200>>, 90 * ConfUnit)

\* A line without text: its text and its confidence come from its words.
LineFromWords ==
    Line(NoText,
         <<Word(<<"F", "r", "a", "n", "k">>, 80 * ConfUnit),
           Word(<<>>, NoFloat),
           Word(<<"H", "e", "r", "b", "e", "r", "t">>, 100 * ConfUnit)>>,
         <<150, 300, 350, 340>>, NoFloat)

\* A line whose text is padded with whitespace.
LinePadded ==
    Line(<<" ", "A", " ", "N", "o", "v", "e", "l", " ">>, <<>>,
         <<100, 220, 400, 260>>, NoFloat)

\* A line whose text is whitespace only, with a word.
LineBlankText ==
    Line(<<" ">>, <<Word(<<"D", "u", "n", "e">>, 90 * ConfUnit)>>,
         <<100, 400, 400, 440>>, NoFloat)

\* A line with empty text and nothing but a whitespace word.
LineEmpty ==
    Line(<<>>, <<Word(<<" ">>, NoFloat)>>, <<100, 500, 400, 540>>, 50 * ConfUnit)

\* A line whose box has its corners the wrong way round.
LineInverted ==
    Line(<<"D", "u", "n", "e">>, <<>>, <<400, 200, 100, 100>>, 90 * ConfUnit)

\* A line of a document, with the place it takes: the first line of a new
\* block, of a new paragraph of the current block, or the next line of the
\* current paragraph.
Item(line, brk) == [line |-> line, brk |-> brk]

Items ==
    { Item(LineDune, "block"), Item(LineDune, "line"),
      Item(LineFromWords, "paragraph"), Item(LineFromWords, "block"),
      Item(LinePadded, "line"), Item(LineBlankText, "line"),
      Item(LineEmpty, "paragraph"), Item(LineInverted, "line") }

\* The blocks that a sequence of items describes.
RECURSIVE Nest(_, _)
Nest(blocks, items) ==
    IF items = <<>> THEN blocks
    ELSE LET it == Head(items)
             nb == Len(blocks)
         IN  IF nb = 0 \/ it.brk = "block"
             THEN Nest(Append(blocks, Block(<<Paragraph(<<it.line>>)>>)), Tail(items))
             ELSE IF it.brk = "paragraph"
             THEN Nest([blocks EXCEPT ![nb].paragraphs =
                            Append(@, Paragraph(<<it.line>>))], Tail(items))
             ELSE Nest([blocks EXCEPT
                            ![nb].paragraphs[Len(blocks[nb].paragraphs)].lines =
                                Append(@, it.line)], Tail(items))

\* Documents with empty containers.
SparseChunks ==
    { NoChunks,
      Chunks(<<>>),
      Chunks(<<Block(<<>>),
               Block(<<Paragraph(<<>>), Paragraph(<<LineDune, LinePadded>>)>>)>>) }

ChunksChoices ==
    {Chunks(Nest(<<>>, items)) : items \in SeqsUpTo(Items, MaxDocLines) \ {<<>>}}
        \cup SparseChunks

Images == {NoImage, ImageInfo(0, 0), ImageInfo(500, 2000)}

MaxLinesChoices == {-1, 0, 1, 2}

\* ---- LineRecord ----

LineRecord(text, bbox, line_conf, height, center_x, center_y, word_count, char_len, tokens, caps_ratio) ==
    [text |-> text, bbox |-> bbox, line_conf |-> line_conf, height |-> height,
     center_x |-> center_x, center_y |-> center_y, word_count |-> word_count,
     char_len |-> char_len, tokens |-> tokens, caps_ratio |-> caps_ratio]

\* " ".join(w["text"] for w in words if w["text"]).
extract_text_from_words(words) ==
    IF words = <<>> THEN <<>>
    ELSE join([k \in 1..Len(SelectSeq(words, LAMBDA w : w.text # <<>>)) |->
                  SelectSeq(words, LAMBDA w : w.text # <<>>)[k].text])

\* The ratio upper / letters as a fraction; 0 when there is no letter.
calculate_caps_ratio(text) ==
    LET letters == SelectSeq(text, isalpha)
    IN  IF text = <<>> \/ letters = <<>> THEN [num |-> 0, den |-> 1]
        ELSE [num |-> Len(SelectSeq(letters, isupper)), den |-> Len(letters)]

\* ---- normalize_ocr ----

\* The positions <<block, paragraph, line>> in the order of the three loops.
RECURSIVE flatten(_)
flatten(ss) == IF ss = <<>> THEN <<>> ELSE Head(ss) \o flatten(Tail(ss))

DocOrder(blocks) ==
    flatten([b \in 1..Len(blocks) |->
        flatten([p \in 1..Len(blocks[b].paragraphs) |->
            [l \in 1..Len(blocks[b].paragraphs[p].lines) |-> <<b, p, l>>]])])

LineAt(ocr, pos) == ocr.chunks.blocks[pos[1]].paragraphs[pos[2]].lines[pos[3]]

\* A running call: the arguments, the locals, the position in the loops
\* (order[k] is the line visited last) and, for each record of "lines", the
\* index in "order" of the line it was made from (src).
NormalizeCall(ocr, max_lines_considered) ==
    [pc |-> "start",
     ocr |-> ocr,
     settings |-> [max_lines_considered |-> max_lines_considered],
     image_width |-> 0, image_height |-> 0,
     order |-> <<>>, k |-> 0,
     lines |-> <<>>, src |-> <<>>,
     result |-> <<>>]

\* Lines 56-63.
normalize_ocr_enter(n) ==
    [n EXCEPT
        !.pc = "loop",
        !.image_width = IF n.ocr.image.isnone THEN DefaultImageSide
                        ELSE n.ocr.image.width,
        !.image_height = IF n.ocr.image.isnone THEN DefaultImageSide
                         ELSE n.ocr.image.height,
        !.order = IF ~n.ocr.chunks.isnone /\ n.ocr.chunks.blocks # <<>>
                  THEN DocOrder(n.ocr.chunks.blocks) ELSE <<>>]

\* Lines 68-72: the text of a line, rebuilt from the words if it has none.
line_text(line) ==
    IF Falsy(line.text) /\ line.words # <<>>
    THEN extract_text_from_words(line.words)
    ELSE line.text

\* Lines 74-80: the line is passed over.
line_skipped(line) ==
    \/ Falsy(line_text(line))
    \/ strip(line_text(line)) = <<>>
    \/ Len(line.bbox) < 4

\* Lines 85-91.
line_confidence(line) ==
    LET confidences == SelectSeq(line.words, LAMBDA w : w.confidence # NoFloat)
    IN  IF line.confidence = NoFloat /\ line.words # <<>> /\ confidences # <<>>
        THEN sum([k \in 1..Len(confidences) |-> confidences[k].confidence])
                \div Len(confidences)
        ELSE line.confidence

\* Lines 94-100.
center_norm(lo, hi, side) ==
    IF side > 0 THEN ((lo + hi) * CenterUnit) \div (2 * side) ELSE CenterUnit \div 2

\* Lines 82-122.
line_record(line, image_width, image_height) ==
    LET text == line_text(line)
        x1 == line.bbox[1]
        y1 == line.bbox[2]
        x2 == line.bbox[3]
        y2 == line.bbox[4]
        tokens == split(text)
    IN  LineRecord(strip(text), line.bbox, line_confidence(line), y2 - y1,
                   center_norm(x1, x2, image_width),
                   center_norm(y1, y2, image_height),
                   Len(tokens), Len(text), tokens, calculate_caps_ratio(text))

\* One pass of the innermost loop body, lines 66-124.
normalize_ocr_line(n) ==
    LET line == LineAt(n.ocr, n.order[n.k + 1])
    IN  IF line_skipped(line) THEN [n EXCEPT !.k = n.k + 1]
        ELSE [n EXCEPT
                !.k = n.k + 1,
                !.lines = Append(@, line_record(line, n.image_width, n.image_height)),
                !.src = Append(@, n.k + 1)]

\* Lines 127-130 with the slice dropped.
normalize_ocr_return_NoLimit(n) ==
    [n EXCEPT !.pc = "done", !.result = n.lines]

\* Lines 127-130.
normalize_ocr_return(n) ==
    LET limit == n.settings.max_lines_considered
        kept == IF limit > 0 THEN Min2(limit, Len(n.lines)) ELSE Len(n.lines)
    IN  [n EXCEPT
            !.pc = "done",
            !.lines = SubSeq(n.lines, 1, kept),
            !.src = SubSeq(n.src, 1, kept),
            !.result = SubSeq(n.lines, 1, kept)]

\* ---- actions ----

NormalizeEnter ==
    /\ nz.pc = "start"
    /\ nz' = normalize_ocr_enter(nz)
    /\ UNCHANGED <<vc, rk, ep>>

NormalizeLineSkip ==
    /\ nz.pc = "loop"
    /\ nz.k < Len(nz.order)
    /\ line_skipped(LineAt(nz.ocr, nz.order[nz.k + 1]))
    /\ nz' = normalize_ocr_line(nz)
    /\ UNCHANGED <<vc, rk, ep>>

NormalizeLineAppend ==
    /\ nz.pc = "loop"
    /\ nz.k < Len(nz.order)
    /\ ~line_skipped(LineAt(nz.ocr, nz.order[nz.k + 1]))
    /\ nz' = normalize_ocr_line(nz)
    /\ UNCHANGED <<vc, rk, ep>>

NormalizeReturn ==
    /\ nz.pc = "loop"
    /\ nz.k = Len(nz.order)
    /\ nz' = normalize_ocr_return(nz)
    /\ UNCHANGED <<vc, rk, ep>>

NextNorm ==
    \/ NormalizeEnter
    \/ NormalizeLineSkip
    \/ NormalizeLineAppend
    \/ NormalizeReturn

InitNorm ==
    /\ \E image \in Images, chunks \in ChunksChoices, limit \in MaxLinesChoices :
          nz = NormalizeCall(OCRInput(image, chunks), limit)
    /\ vc = VcIdle
    /\ rk = RkIdle
    /\ ep = EpIdle

SpecNorm == InitNorm /\ [][NextNorm]_vars

(***************************************************************************)
(* Claims about the normalizer, checked under SpecNorm.                    *)
(***************************************************************************)

NormalizeDone == nz.pc = "done"

\* The positions of the input document in document order.
DocPositions ==
    IF nz.ocr.chunks.isnone THEN <<>> ELSE DocOrder(nz.ocr.chunks.blocks)

\* A string with a character that is not whitespace.
HasInk(s) == s # NoText /\ \E k \in DOMAIN s : ~isspace(s[k])

\* The text a line carries: its own when that is not blank, else its
\* non-empty word texts joined by spaces.
CarriedText(line) ==
    IF HasInk(line.text) THEN line.text
    ELSE join([k \in 1..Len(SelectSeq(line.words, LAMBDA w : w.text # <<>>)) |->
                  SelectSeq(line.words, LAMBDA w : w.text # <<>>)[k].text])

\* A line that is valid on any reading: a box of four coordinates, and either
\* a text that is not blank or no text at all (None or "") and a word that is
\* not blank.
ClearlyValid(line) ==
    /\ Len(line.bbox) = 4
    /\ \/ HasInk(line.text)
       \/ Falsy(line.text) /\ \E k \in DOMAIN line.words : HasInk(line.words[k].text)

C10_NoDegenerateBox ==
    \A k \in DOMAIN nz.result :
        /\ Len(nz.result[k].bbox) = 4
        /\ nz.result[k].bbox[3] >= nz.result[k].bbox[1]
        /\ nz.result[k].bbox[4] >= nz.result[k].bbox[2]
        /\ nz.result[k].height >= 0

\* The line the loop of normalize_ocr visits in its next step.
LineAhead == LineAt(nz.ocr, nz.order[nz.k + 1])

\* The next step visits a line whose text is missing or blank.
VisitsBlankText ==
    /\ nz.pc = "loop"
    /\ nz.k < Len(nz.order)
    /\ ~HasInk(LineAhead.text)
    /\ Len(LineAhead.bbox) = 4

\* The step made a record of the text rebuilt from the words.
RebuiltFromWords ==
    /\ Len(nz'.lines) = Len(nz.lines) + 1
    /\ nz'.lines[Len(nz'.lines)].text = strip(CarriedText(LineAhead))
    /\ nz'.lines[Len(nz'.lines)].tokens = split(CarriedText(LineAhead))

\* A line whose text is None or "" is rebuilt from its words.
MissingTextRebuilt ==
    [][VisitsBlankText /\ Falsy(LineAhead.text) =>
          IF HasInk(CarriedText(LineAhead))
          THEN RebuiltFromWords
          ELSE nz'.lines = nz.lines]_vars

\* C26: a line whose text is missing or blank (None, "" or whitespace only)
\* is rebuilt by joining its non-empty word texts with spaces, and is passed
\* over only if the rebuilt text is blank too: with a word that is not blank
\* it always yields a record.
C26_BlankTextRebuiltFromWords ==
    [][VisitsBlankText =>
          IF HasInk(CarriedText(LineAhead))
          THEN RebuiltFromWords
          ELSE nz'.lines = nz.lines]_vars

(***************************************************************************)
(*                        RANKER  (app/ranker.py)                          *)
(*                                                                         *)
(* Units:  title and author scores   1 = 1/(10000 * h), h the largest line *)
(*                                   height of the call (1 if that is not  *)
(*                                   positive): see ScoreScale             *)
(*         person_like_score         the float the source computes, as     *)
(*                                   <<t, d>> = (double nearest t/10)      *)
(*                                   + d * 2^-60                           *)
(*         IoU, ratios, confidence   fractions [num, den]                  *)
(* Scores are summed exactly; the float sums of the source differ from     *)
(* them by rounding in the last place.                                     *)
(***************************************************************************)

\* ---- bounds of the ranker model ----

\* Most line records handed to rank_candidates.
MaxRankLines == 3

\* ---- program constants ----

\* Candidates kept per category.
TopN == 5

\* is_junk: longest text that is not junk by its length.
JunkLength == 200

JUNK_KEYWORDS ==
    << <<"A", " ", "N", "O", "V", "E", "L">>,
       <<"N", "E", "W", " ", "Y", "O", "R", "K", " ", "T", "I", "M", "E", "S">>,
       <<"B", "E", "S", "T", "S", "E", "L", "L", "E", "R">>,
       <<"W", "I", "N", "N", "E", "R">>,
       <<"N", "O", "W", " ", "A", " ", "M", "A", "J", "O", "R", " ", "M", "O", "T", "I", "O", "N", " ", "P", "I", "C", "T", "U", "R", "E">>,
       <<"F", "O", "R", "E", "W", "O", "R", "D">>,
       <<"I", "N", "T", "R", "O", "D", "U", "C", "T", "I", "O", "N">>,
       <<"V", "O", "L", "U", "M", "E">>,
       <<"B", "O", "O", "K", " ", "O", "N", "E">>,
       <<"B", "O", "O", "K", " ", "T", "W", "O">>,
       <<"B", "O", "O", "K", " ", "T", "H", "R", "E", "E">>,
       <<"E", "D", "I", "T", "I", "O", "N">>,
       <<"R", "E", "V", "I", "S", "E", "D">>,
       <<"U", "P", "D", "A", "T", "E", "D">>,
       <<"C", "O", "P", "Y", "R", "I", "G", "H", "T">>,
       <<"P", "U", "B", "L", "I", "S", "H", "E", "D", " ", "B", "Y">>,
       <<"I", "S", "B", "N">>,
       <<"W", "W", "W", ".">>,
       <<"H", "T", "T", "P", ":", "/", "/">>,
       <<"H", "T", "T", "P", "S", ":", "/", "/">> >>

\* The literals URL_PATTERN matches, case-insensitively.
URL_PATTERN ==
    { <<"h", "t", "t", "p", ":", "/", "/">>,
      <<"h", "t", "t", "p", "s", ":", "/", "/">>,
      <<"w", "w", "w", ".">>,
      <<".", "c", "o", "m">>,
      <<".", "o", "r", "g">>,
      <<".", "n", "e", "t">> }

stopwords ==
    { <<"t", "h", "e">>,
      <<"a">>,
      <<"a", "n">>,
      <<"a", "n", "d">>,
      <<"o", "r">>,
      <<"b", "u", "t">>,
      <<"i", "n">>,
      <<"o", "n">>,
      <<"a", "t">>,
      <<"t", "o">>,
      <<"f", "o", "r">> }

\* ---- is_junk ----

\* EMAIL_PATTERN.search(text): a local part, "@", a domain part, ".", and two
\* letters.
LocalChar(c) == isalpha(c) \/ isdigit(c) \/ c \in {".", "_", "%", "+", "-"}

DomainChar(c) == isalpha(c) \/ isdigit(c) \/ c \in {".", "-"}

EMAIL_PATTERN(text) ==
    \E at \in DOMAIN text :
        /\ text[at] = "@"
        /\ at > 1
        /\ LocalChar(text[at - 1])
        /\ \E dot \in (at + 2)..(Len(text) - 2) :
              /\ text[dot] = "."
              /\ \A k \in (at + 1)..(dot - 1) : DomainChar(text[k])
              /\ isalpha(text[dot + 1])
              /\ isalpha(text[dot + 2])

is_junk(text) ==
    \/ \E k \in DOMAIN JUNK_KEYWORDS : contains(str_upper(text), JUNK_KEYWORDS[k])
    \/ \E u \in URL_PATTERN : contains(str_lower(text), u)
    \/ EMAIL_PATTERN(text)
    \/ Len(text) > JunkLength

\* ---- person_like_score ----

\* Float addition where it is not exact on the values person_like_score
\* meets: <<value, addend in tenths, sum>>.
FloatRounded ==
    { <<<<-3, -64>>, -2, <<-5, 0>>>>,
      <<<<-1, 0>>, -2, <<-3, -64>>>>,
      <<<<0, -32>>, -2, <<-2, -32>>>>,
      <<<<0, 32>>, -2, <<-2, 32>>>>,
      <<<<1, -32>>, -2, <<-1, -32>>>>,
      <<<<1, 0>>, 2, <<3, 64>>>>,
      <<<<1, 32>>, -2, <<-1, 32>>>>,
      <<<<2, -32>>, -2, <<0, -32>>>>,
      <<<<2, 32>>, -2, <<0, 32>>>>,
      <<<<3, 0>>, -2, <<1, -32>>>>,
      <<<<3, 0>>, -1, <<2, -32>>>>,
      <<<<3, 64>>, -2, <<1, 32>>>>,
      <<<<3, 64>>, -1, <<2, 32>>>>,
      <<<<3, 64>>, 3, <<6, 128>>>>,
      <<<<3, 128>>, -2, <<1, 96>>>>,
      <<<<4, -64>>, -2, <<2, -64>>>>,
      <<<<4, 0>>, -1, <<3, 64>>>>,
      <<<<4, 64>>, -2, <<2, 64>>>>,
      <<<<5, 128>>, -2, <<3, 128>>>>,
      <<<<6, 0>>, -2, <<4, -64>>>>,
      <<<<6, 128>>, -2, <<4, 64>>>>,
      <<<<6, 128>>, -1, <<5, 128>>>>,
      <<<<7, 128>>, -2, <<5, 0>>>>,
      <<<<8, 0>>, -2, <<6, 128>>>>,
      <<<<8, 0>>, -1, <<7, 128>>>> }

\* The floats person_like_score meets and the tenths it adds to them.
FloatValues ==
    {r[1] : r \in FloatRounded} \cup {r[3] : r \in FloatRounded}
        \cup {<<t, 0>> : t \in (0 - 5)..10}

FloatAddends == {3, 1, 2, 0 - 1, 0 - 2}

FloatSum ==
    [v \in FloatValues, a \in FloatAddends |->
        IF \E r \in FloatRounded : r[1] = v /\ r[2] = a
        THEN (CHOOSE r \in FloatRounded : r[1] = v /\ r[2] = a)[3]
        ELSE <<v[1] + a, v[2]>>]

float_add(v, a) == FloatSum[v, a]

\* v > t/10 and v < t/10 for a float v and a literal of t tenths.
float_gt(v, t) == v[1] > t \/ (v[1] = t /\ v[2] > 0)

float_lt(v, t) == v[1] < t \/ (v[1] = t /\ v[2] < 0)

\* Each token starts with a capital or is an initial such as "J.".
all_caps_or_initial(tokens) ==
    \A k \in DOMAIN tokens :
        tokens[k] = <<>> \/ isupper(tokens[k][1])
            \/ (Len(tokens[k]) = 2 /\ tokens[k][2] = ".")

person_like_score(text, tokens) ==
    IF text = <<>> \/ tokens = <<>> THEN <<0, 0>>
    ELSE
        LET s0 == <<0, 0>>
            s1 == IF 2 <= Len(tokens) /\ Len(tokens) <= 5 THEN float_add(s0, 3)
                  ELSE IF Len(tokens) = 1 THEN float_add(s0, 1) ELSE s0
            s2 == IF Len(SelectSeq(text, isalpha)) * 5 > Len(text) * 4
                  THEN float_add(s1, 2) ELSE s1
            s3 == IF all_caps_or_initial(tokens) THEN float_add(s2, 3) ELSE s2
            s4 == IF str_isupper(text) /\ Len(text) > 5 THEN float_add(s3, -1) ELSE s3
            s5 == IF \E k \in DOMAIN text : isdigit(text[k]) THEN float_add(s4, -2) ELSE s4
            s6 == IF \E k \in DOMAIN tokens : str_lower(tokens[k]) \in stopwords
                  THEN float_add(s5, -2) ELSE s5
        IN  IF float_lt(s6, 0) THEN <<0, 0>>
            ELSE IF float_gt(s6, 10) THEN <<10, 0>> ELSE s6

\* ---- has_by_prefix and the "by" strip ----

has_by_prefix(text) ==
    \/ startswith(strip(str_lower(text)), <<"b", "y", " ">>)
    \/ strip(str_lower(text)) = <<"b", "y">>

\* re.sub(r"^by\s+", "", text, flags=re.IGNORECASE).strip()
strip_by(text) ==
    IF Len(text) >= 3 /\ lower(text[1]) = "b" /\ lower(text[2]) = "y" /\ isspace(text[3])
    THEN strip(SubSeq(text, 3, Len(text)))
    ELSE strip(text)

\* ---- calculate_bbox_iou ----

Fraction(num, den) == [num |-> num, den |-> den]

calculate_bbox_iou(bbox1, bbox2) ==
    IF Len(bbox1) < 4 \/ Len(bbox2) < 4 THEN Fraction(0, 1)
    ELSE
        LET x1_i == Max2(bbox1[1], bbox2[1])
            y1_i == Max2(bbox1[2], bbox2[2])
            x2_i == Min2(bbox1[3], bbox2[3])
            y2_i == Min2(bbox1[4], bbox2[4])
            intersection == (x2_i - x1_i) * (y2_i - y1_i)
            area1 == (bbox1[3] - bbox1[1]) * (bbox1[4] - bbox1[2])
            area2 == (bbox2[3] - bbox2[1]) * (bbox2[4] - bbox2[2])
            union == area1 + area2 - intersection
        IN  IF x2_i <= x1_i \/ y2_i <= y1_i THEN Fraction(0, 1)
            ELSE IF union > 0 THEN Fraction(intersection, union)
            ELSE Fraction(0, 1)

\* iou > 0.2 and iou < 0.2 for an IoU with a positive denominator.
iou_above(iou) == 5 * iou.num > iou.den

iou_below(iou) == 5 * iou.num < iou.den

\* ---- scores ----

\* "if line.line_conf": a confidence that is neither None nor 0.
conf_truthy(line_conf) == line_conf # NoFloat /\ line_conf # 0

\* The h of the score unit 1/(10000 * h).
ScoreScale(max_height) == IF max_height > 0 THEN max_height ELSE 1

title_score(line, max_height) ==
    LET h == ScoreScale(max_height)
        size == IF max_height > 0 THEN line.height * 3000 ELSE 0
        center == Max2(0, 1000 - Abs(line.center_x - 1000)) * 2 * h
        position == IF line.center_y < 660 THEN 1500 * h
                    ELSE IF line.center_y <= 1340 THEN 2000 * h
                    ELSE 500 * h
        words == IF 1 <= line.word_count /\ line.word_count <= 10 THEN 1500 * h
                 ELSE IF line.word_count > 15 THEN (0 - 1000) * h
                 ELSE 0
        person == person_like_score(line.text, line.tokens)[1] * 100 * h
        junk == IF is_junk(line.text) THEN 5000 * h ELSE 0
        conf == IF conf_truthy(line.line_conf) /\ line.line_conf > 50 * ConfUnit
                THEN 1000 * h ELSE 0
    IN  Max2(0, size + center + position + words - person - junk + conf)

\* The text author_score leaves in line.text.
author_text(line) ==
    IF has_by_prefix(line.text) THEN strip_by(line.text) ELSE line.text

author_score(line, max_height) ==
    LET h == ScoreScale(max_height)
        person == person_like_score(line.text, line.tokens)[1] * 400 * h
        by == IF has_by_prefix(line.text) THEN 3000 * h ELSE 0
        size == IF /\ max_height > 0
                   /\ 10 * line.height >= 3 * max_height
                   /\ 10 * line.height <= 12 * max_height
                THEN 1500 * h ELSE 0
        position == IF line.center_y > 1340 THEN 1500 * h
                    ELSE IF line.center_y < 660 THEN 1000 * h
                    ELSE 0
        words == IF 1 <= line.word_count /\ line.word_count <= 5 THEN 1500 * h
                 ELSE IF line.word_count > 8 THEN (0 - 1000) * h
                 ELSE 0
        junk == IF is_junk(author_text(line)) THEN 5000 * h ELSE 0
        conf == IF conf_truthy(line.line_conf) /\ line.line_conf > 50 * ConfUnit
                THEN 1000 * h ELSE 0
    IN  Max2(0, person + by + size + position + words - junk + conf)

\* ---- merge_adjacent_lines ----

\* Lines 254-284: the record that replaces current when candidate is absorbed.
merged_record(current, candidate) ==
    LET merged_text == current.text \o <<" ">> \o candidate.text
        merged_bbox == << Min2(current.bbox[1], candidate.bbox[1]),
                          Min2(current.bbox[2], candidate.bbox[2]),
                          Max2(current.bbox[3], candidate.bbox[3]),
                          Max2(current.bbox[4], candidate.bbox[4]) >>
        merged_conf == IF conf_truthy(current.line_conf) /\ conf_truthy(candidate.line_conf)
                       THEN (current.line_conf + candidate.line_conf) \div 2
                       ELSE IF conf_truthy(current.line_conf) THEN current.line_conf
                       ELSE candidate.line_conf
        merged_tokens == current.tokens \o candidate.tokens
    IN  LineRecord(merged_text, merged_bbox, merged_conf,
                   Max2(current.height, candidate.height),
                   (merged_bbox[1] + merged_bbox[3]) * (CenterUnit \div 2),
                   (merged_bbox[2] + merged_bbox[4]) * (CenterUnit \div 2),
                   Len(merged_tokens), Len(merged_text), merged_tokens,
                   calculate_caps_ratio(merged_text))

\* The inner while loop, lines 237-288: the record current has become and the
\* index the loop stopped at.
RECURSIVE look_ahead(_, _, _)
look_ahead(lines, current, j) ==
    IF j > Len(lines) THEN [current |-> current, j |-> j]
    ELSE
        LET candidate == lines[j]
            delta_y == Abs(candidate.bbox[2] - current.bbox[4])
            heights == sum([k \in 1..Len(lines) |-> lines[k].height])
        IN  IF 5 * Len(lines) * delta_y > 3 * heights
            THEN [current |-> current, j |-> j]
            ELSE IF 10 * Abs(candidate.center_x - current.center_x) > CenterUnit
            THEN look_ahead(lines, current, j + 1)
            ELSE IF current.word_count <= 5 /\ candidate.word_count <= 5
            THEN look_ahead(lines, merged_record(current, candidate), j + 1)
            ELSE [current |-> current, j |-> j]

\* The outer while loop, lines 231-290.
RECURSIVE merge_from(_, _, _)
merge_from(lines, i, merged) ==
    IF i > Len(lines) THEN merged
    ELSE LET ahead == look_ahead(lines, lines[i], i + 1)
         IN  merge_from(lines, ahead.j, Append(merged, ahead.current))

merge_adjacent_lines(lines) ==
    IF lines = <<>> THEN <<>> ELSE merge_from(lines, 1, <<>>)

\* ---- rank_candidates ----

Warning(what, count) == [what |-> what, count |-> count]

WarnNoLines == Warning("No valid lines found in OCR", 0)

WarnJunk(count) == Warning("Filtered junk lines", count)

WarnSwap == Warning("Applied swap logic: title/author may be reversed", 0)

MethodInfo == [ranker |-> "heuristic_v1", verifier |-> "none", fallback |-> "none"]

RankResult(title, author, confidence, title_candidates, author_candidates, warnings) ==
    [title |-> title, author |-> author, confidence |-> confidence,
     method |-> MethodInfo,
     candidates |-> [title |-> title_candidates, author |-> author_candidates],
     warnings |-> warnings]

NoRankResult == RankResult(NoText, NoText, Fraction(0, 1), <<>>, <<>>, <<>>)

\* list.sort that puts the later of two equal scores first.
sort_by_score_Unstable(scores) ==
    LET n == Len(scores)
        place(i) == 1 + Cardinality({j \in 1..n :
                        \/ scores[j].score > scores[i].score
                        \/ (scores[j].score = scores[i].score /\ j > i)})
    IN  [k \in 1..n |-> scores[CHOOSE i \in 1..n : place(i) = k]]

\* list.sort(key=score, reverse=True): descending and stable.
sort_by_score(scores) ==
    LET n == Len(scores)
        place(i) == 1 + Cardinality({j \in 1..n :
                        \/ scores[j].score > scores[i].score
                        \/ (scores[j].score = scores[i].score /\ j < i)})
    IN  [k \in 1..n |-> scores[CHOOSE i \in 1..n : place(i) = k]]

\* Lines 362-374 and 383-395.
CandidateFeatures(line, max_height) ==
    [size_norm |-> IF max_height > 0 THEN Fraction(line.height, max_height)
                   ELSE Fraction(0, 1),
     center_norm |-> Fraction(1000 - Abs(line.center_x - 1000), 1000),
     upper_third |-> line.center_y < 660,
     lower_third |-> line.center_y > 1340,
     char_len |-> line.char_len,
     word_count |-> line.word_count,
     caps_ratio |-> line.caps_ratio,
     has_by_prefix |-> has_by_prefix(line.text),
     person_like |-> person_like_score(line.text, line.tokens),
     junk_like |-> is_junk(line.text),
     line_conf |-> line.line_conf]

Candidate(text, score, bbox, features) ==
    [text |-> text, score |-> score, bbox |-> bbox, features |-> features]

\* A running call.  A scored line is held as [line, score], line being the
\* index in "lines" of the record the tuple of the source refers to;
\* best_title and best_author are such indices, 0 for None.
RankCall(lines, junk_filter, merge_adjacent) ==
    [pc |-> "start",
     arg_lines |-> lines,
     settings |-> [junk_filter |-> junk_filter, merge_adjacent_lines |-> merge_adjacent],
     lines |-> lines,
     warnings |-> <<>>,
     max_height |-> 0,
     title_scores |-> <<>>,
     author_scores |-> <<>>,
     top_title_candidates |-> <<>>,
     top_author_candidates |-> <<>>,
     title_candidates |-> <<>>,
     author_candidates |-> <<>>,
     best_title |-> 0,
     best_author |-> 0,
     result |-> NoRankResult]

SetMin(S) == CHOOSE m \in S : \A k \in S : m <= k

SeqMax(s) == CHOOSE m \in Range(s) : \A k \in DOMAIN s : m >= s[k]

\* Lines 310-324.
rank_candidates_enter(r) ==
    LET lines == SelectSeq(r.lines, LAMBDA l : ~Falsy(l.text) /\ strip(l.text) # <<>>)
    IN  IF lines = <<>>
        THEN [r EXCEPT
                !.pc = "done",
                !.lines = lines,
                !.warnings = <<WarnNoLines>>,
                !.result = RankResult(NoText, NoText, Fraction(0, 1), <<>>, <<>>,
                                      <<WarnNoLines>>)]
        ELSE [r EXCEPT !.pc = "filter", !.lines = lines]

\* rank_candidates_prepare without the warning about the lines it dropped.
rank_candidates_prepare_Silent(r) ==
    LET kept == IF r.settings.junk_filter
                THEN SelectSeq(r.lines, LAMBDA l : ~is_junk(l.text))
                ELSE r.lines
        lines == IF r.settings.merge_adjacent_lines
                 THEN merge_adjacent_lines(kept) ELSE kept
    IN  [r EXCEPT
            !.pc = "score",
            !.lines = lines,
            !.max_height = IF lines = <<>> THEN 1
                           ELSE SeqMax([k \in 1..Len(lines) |-> lines[k].height])]

\* Lines 326-339.
rank_candidates_prepare(r) ==
    LET original_count == Len(r.lines)
        kept == IF r.settings.junk_filter
                THEN SelectSeq(r.lines, LAMBDA l : ~is_junk(l.text))
                ELSE r.lines
        warnings == IF r.settings.junk_filter /\ Len(kept) < original_count
                    THEN Append(r.warnings, WarnJunk(original_count - Len(kept)))
                    ELSE r.warnings
        lines == IF r.settings.merge_adjacent_lines
                 THEN merge_adjacent_lines(kept) ELSE kept
    IN  [r EXCEPT
            !.pc = "score",
            !.lines = lines,
            !.warnings = warnings,
            !.max_height = IF lines = <<>> THEN 1
                           ELSE SeqMax([k \in 1..Len(lines) |-> lines[k].height])]

\* Lines 341-349: the scoring loop.  author_score leaves the text without
\* its "by" in the record, after title_score has read it.
rank_candidates_score(r) ==
    [r EXCEPT
        !.pc = "select",
        !.title_scores = [k \in 1..Len(r.lines) |->
            [line |-> k, score |-> title_score(r.lines[k], r.max_height)]],
        !.author_scores = [k \in 1..Len(r.lines) |->
            [line |-> k, score |-> author_score(r.lines[k], r.max_height)]],
        !.lines = [k \in 1..Len(r.lines) |->
            [r.lines[k] EXCEPT !.text = author_text(r.lines[k])]]]

\* Lines 351-357.
rank_candidates_sort(r) ==
    [r EXCEPT
        !.pc = "build",
        !.title_scores = sort_by_score(r.title_scores),
        !.author_scores = sort_by_score(r.author_scores),
        !.top_title_candidates =
            SubSeq(sort_by_score(r.title_scores), 1, Min2(TopN, Len(r.title_scores))),
        !.top_author_candidates =
            SubSeq(sort_by_score(r.author_scores), 1, Min2(TopN, Len(r.author_scores)))]

\* Lines 359-402.
rank_candidates_build(r) ==
    [r EXCEPT
        !.pc = "identity",
        !.title_candidates = [k \in 1..Len(r.top_title_candidates) |->
            Candidate(r.lines[r.top_title_candidates[k].line].text,
                      r.top_title_candidates[k].score,
                      r.lines[r.top_title_candidates[k].line].bbox,
                      CandidateFeatures(r.lines[r.top_title_candidates[k].line],
                                        r.max_height))],
        !.author_candidates = [k \in 1..Len(r.top_author_candidates) |->
            Candidate(strip_by(r.lines[r.top_author_candidates[k].line].text),
                      r.top_author_candidates[k].score,
                      r.lines[r.top_author_candidates[k].line].bbox,
                      CandidateFeatures(r.lines[r.top_author_candidates[k].line],
                                        r.max_height))],
        !.best_title = IF r.top_title_candidates # <<>>
                       THEN r.top_title_candidates[1].line ELSE 0,
        !.best_author = IF r.top_author_candidates # <<>>
                        THEN r.top_author_candidates[1].line ELSE 0]

\* Lines 404-410: the identity guard.
identity_guard(r) ==
    IF /\ r.best_title # 0
       /\ r.best_author # 0
       /\ str_lower(r.lines[r.best_title].text) = str_lower(r.lines[r.best_author].text)
    THEN IF r.top_title_candidates[1].score > r.top_author_candidates[1].score
         THEN [r EXCEPT !.pc = "overlap",
                        !.best_author = IF Len(r.top_author_candidates) > 1
                                        THEN r.top_author_candidates[2].line ELSE 0]
         ELSE [r EXCEPT !.pc = "overlap",
                        !.best_title = IF Len(r.top_title_candidates) > 1
                                       THEN r.top_title_candidates[2].line ELSE 0]
    ELSE [r EXCEPT !.pc = "overlap"]

\* Lines 412-427: the overlap guard.  The second test of iou reads the value
\* computed before the first loop.
title_clear_of(r, author) ==
    LET clear == {k \in 2..Len(r.top_title_candidates) :
            iou_below(calculate_bbox_iou(r.lines[r.top_title_candidates[k].line].bbox,
                                         r.lines[author].bbox))}
    IN  IF clear = {} THEN r.best_title
        ELSE r.top_title_candidates[SetMin(clear)].line

author_clear_of(r, title) ==
    LET clear == {k \in 2..Len(r.top_author_candidates) :
            iou_below(calculate_bbox_iou(r.lines[title].bbox,
                                         r.lines[r.top_author_candidates[k].line].bbox))}
    IN  IF clear = {} THEN r.best_author
        ELSE r.top_author_candidates[SetMin(clear)].line

overlap_guard(r) ==
    IF r.best_title # 0 /\ r.best_author # 0
    THEN
        LET iou == calculate_bbox_iou(r.lines[r.best_title].bbox,
                                      r.lines[r.best_author].bbox)
        IN  IF iou_above(iou)
            THEN IF iou_above(iou)
                 THEN [r EXCEPT
                         !.pc = "swap",
                         !.best_title = title_clear_of(r, r.best_author),
                         !.best_author =
                             author_clear_of(r, title_clear_of(r, r.best_author))]
                 ELSE [r EXCEPT
                         !.pc = "swap",
                         !.best_title = title_clear_of(r, r.best_author)]
            ELSE [r EXCEPT !.pc = "swap"]
    ELSE [r EXCEPT !.pc = "swap"]

\* Lines 429-437: the swap heuristic.
swap_logic(r) ==
    IF /\ r.best_title # 0
       /\ r.best_author # 0
       /\ float_gt(person_like_score(r.lines[r.best_title].text,
                                     r.lines[r.best_title].tokens), 6)
       /\ float_lt(person_like_score(r.lines[r.best_author].text,
                                     r.lines[r.best_author].tokens), 3)
       /\ 5 * r.top_author_candidates[1].score > 4 * r.top_title_candidates[1].score
    THEN [r EXCEPT
            !.pc = "confidence",
            !.best_title = r.best_author,
            !.best_author = r.best_title,
            !.warnings = Append(@, WarnSwap)]
    ELSE [r EXCEPT !.pc = "confidence"]

\* Lines 443-451 and 453-461: the confidence of one category, as a numerator
\* over 10000 * ConfUnit * h.
category_conf(top, best, r) ==
    LET h == ScoreScale(r.max_height)
        top1_score == top[1].score
        top2_score == IF Len(top) > 1 THEN top[2].score ELSE 0
        margin == IF top2_score > 0 THEN top1_score - top2_score ELSE top1_score
        conf == Min2(10000 * h, margin * 2)
    IN  IF top = <<>> THEN 0
        ELSE IF best # 0 /\ conf_truthy(r.lines[best].line_conf)
        THEN (conf * ConfUnit + r.lines[best].line_conf * 100 * h) \div 2
        ELSE conf * ConfUnit

\* Lines 439-472.
rank_candidates_return(r) ==
    [r EXCEPT
        !.pc = "done",
        !.result = RankResult(
            IF r.best_title # 0 THEN r.lines[r.best_title].text ELSE NoText,
            IF r.best_author # 0 THEN r.lines[r.best_author].text ELSE NoText,
            Fraction(category_conf(r.top_title_candidates, r.best_title, r)
                        + category_conf(r.top_author_candidates, r.best_author, r),
                     2 * 10000 * ConfUnit * ScoreScale(r.max_height)),
            r.title_candidates, r.author_candidates, r.warnings)]

\* ---- the line records handed to the ranker ----

Record(text, bbox, confidence) ==
    line_record(Line(text, <<>>, bbox, confidence), DefaultImageSide, DefaultImageSide)

RecDune == Record(<<"D", "u", "n", "e">>, <<100, 100, 400, 200>>, 90 * ConfUnit)

RecUpperDune == Record(<<"D", "U", "N", "E">>, <<75, 100, 375, 200>>, 90 * ConfUnit)

RecFrankHerbert ==
    Record(<<"F", "r", "a", "n", "k", " ", "H", "e", "r", "b", "e", "r", "t">>,
           <<200, 100, 500, 140>>, 90 * ConfUnit)

RecA == Record(<<"A">>, <<100, 300, 400, 400>>, 90 * ConfUnit)

RecNovel == Record(<<"N", "O", "V", "E", "L">>, <<100, 410, 400, 510>>, NoFloat)

\* Two short lines right under each other, some way below RecDune.
RecIsbn == Record(<<"I", "S", "B", "N", " ", "1">>, <<100, 230, 400, 240>>, 90 * ConfUnit)

RecByline ==
    Record(<<"b", "y", " ", "F", "r", "a", "n", "k", " ", "H", "e", "r", "b", "e", "r", "t">>,
           <<100, 242, 400, 252>>, NoFloat)

\* A record with blank text, which normalize_ocr never makes.
RecBlank ==
    LineRecord(<<" ">>, <<100, 900, 400, 940>>, NoFloat, 40, 500, 1840, 0, 1, <<>>,
               Fraction(0, 1))

RankLines ==
    {RecDune, RecUpperDune, RecFrankHerbert, RecA, RecNovel, RecIsbn, RecByline, RecBlank}

\* Lists longer than the five candidates rank_candidates keeps: six lines that
\* differ, and seven lines among which some are the same record, so that
\* scores tie.
LongRankLists ==
    {<<RecDune, RecUpperDune, RecFrankHerbert, RecA, RecNovel, RecByline>>,
     <<RecA, RecDune, RecA, RecDune, RecFrankHerbert, RecNovel, RecA>>}

\* Lines whose top author score is exactly 0.8 times the top title score.
Rec1984 == Record(<<"1", "9", "8", "4">>, <<350, 100, 650, 180>>, 90 * ConfUnit)

RecMaryAnnLee ==
    Record(<<"M", "a", "r", "y", " ", "A", "n", "n", " ", "L", "e", "e">>,
           <<600, 400, 900, 450>>, NoFloat)

RecFrankHerbertTall ==
    Record(<<"F", "r", "a", "n", "k", " ", "H", "e", "r", "b", "e", "r", "t">>,
           <<200, 100, 500, 180>>, NoFloat)

RecUpperFrankHerbert ==
    Record(<<"F", "R", "A", "N", "K", " ", "H", "E", "R", "B", "E", "R", "T">>,
           <<350, 489, 650, 511>>, NoFloat)

Rec1984Aside == Record(<<"1", "9", "8", "4">>, <<850, 700, 1150, 780>>, NoFloat)

\* Lists on which the swap heuristic meets the boundary of its score test.
SwapRankLists ==
    {<<Rec1984, RecMaryAnnLee, RecFrankHerbertTall>>,
     <<RecUpperFrankHerbert, Rec1984Aside>>}

\* ---- actions ----

RankEnter ==
    /\ rk.pc = "start"
    /\ rk' = rank_candidates_enter(rk)
    /\ UNCHANGED <<vc, nz, ep>>

RankPrepare ==
    /\ rk.pc = "filter"
    /\ rk' = rank_candidates_prepare(rk)
    /\ UNCHANGED <<vc, nz, ep>>

RankScore ==
    /\ rk.pc = "score"
    /\ rk' = rank_candidates_score(rk)
    /\ UNCHANGED <<vc, nz, ep>>

RankSort ==
    /\ rk.pc = "select"
    /\ rk' = rank_candidates_sort(rk)
    /\ UNCHANGED <<vc, nz, ep>>

RankBuild ==
    /\ rk.pc = "build"
    /\ rk' = rank_candidates_build(rk)
    /\ UNCHANGED <<vc, nz, ep>>

RankIdentityGuard ==
    /\ rk.pc = "identity"
    /\ rk' = identity_guard(rk)
    /\ UNCHANGED <<vc, nz, ep>>

RankOverlapGuard ==
    /\ rk.pc = "overlap"
    /\ rk' = overlap_guard(rk)
    /\ UNCHANGED <<vc, nz, ep>>

RankSwap ==
    /\ rk.pc = "swap"
    /\ rk' = swap_logic(rk)
    /\ UNCHANGED <<vc, nz, ep>>

RankReturn ==
    /\ rk.pc = "confidence"
    /\ rk' = rank_candidates_return(rk)
    /\ UNCHANGED <<vc, nz, ep>>

NextRank ==
    \/ RankEnter
    \/ RankPrepare
    \/ RankScore
    \/ RankSort
    \/ RankBuild
    \/ RankIdentityGuard
    \/ RankOverlapGuard
    \/ RankSwap
    \/ RankReturn

InitRank ==
    /\ \E lines \in SeqsUpTo(RankLines, MaxRankLines) \cup LongRankLists \cup SwapRankLists,
          junk_filter \in BOOLEAN, merge_adjacent \in BOOLEAN :
            rk = RankCall(lines, junk_filter, merge_adjacent)
    /\ vc = VcIdle
    /\ nz = NzIdle
    /\ ep = EpIdle

SpecRank == InitRank /\ [][NextRank]_vars

(***************************************************************************)
(* Claims about the ranker, checked under SpecRank.                        *)
(***************************************************************************)

RankDone == rk.pc = "done"

BothChosen == RankDone /\ rk.result.title # NoText /\ rk.result.author # NoText

\* C6: whenever rank_candidates returns both a title and an author, the two
\* strings differ under case-insensitive comparison.
C6_TitleAuthorNeverEqual ==
    BothChosen => str_lower(rk.result.title) # str_lower(rk.result.author)

\* An IoU of at most 0.2.
iou_at_most(iou) == 5 * iou.num <= iou.den

\* Some runner-up of the top title candidates is clear of the chosen author,
\* or some runner-up of the top author candidates is clear of the chosen title.
AlternativeExists ==
    \/ \E k \in 2..Len(rk.top_title_candidates) :
          iou_at_most(calculate_bbox_iou(rk.lines[rk.top_title_candidates[k].line].bbox,
                                         rk.lines[rk.best_author].bbox))
    \/ \E k \in 2..Len(rk.top_author_candidates) :
          iou_at_most(calculate_bbox_iou(rk.lines[rk.best_title].bbox,
                                         rk.lines[rk.top_author_candidates[k].line].bbox))

\* C7: whenever rank_candidates returns both a title and an author, the IoU
\* of their boxes is at most 0.2, unless no runner-up of the top five title
\* candidates has an IoU of at most 0.2 with the chosen author and no runner-up
\* of the top five author candidates has one with the chosen title.
C7_OverlapOnlyWithoutAlternative ==
    BothChosen =>
        \/ iou_at_most(calculate_bbox_iou(rk.lines[rk.best_title].bbox,
                                          rk.lines[rk.best_author].bbox))
        \/ ~AlternativeExists

\* The lines of the argument that are not blank, and those of them that are
\* junk.
ValidArgLines ==
    SelectSeq(rk.arg_lines, LAMBDA l : ~Falsy(l.text) /\ strip(l.text) # <<>>)

JunkArgLines == SelectSeq(ValidArgLines, LAMBDA l : is_junk(l.text))

\* C8: with junk_filter enabled no line that is scored is junk, no title or
\* author candidate and neither the chosen title nor the chosen author has a
\* text for which is_junk holds, and whenever lines are dropped a warning
\* carries their exact number.
C8_NoJunkIsScored ==
    rk.settings.junk_filter =>
        /\ rk.pc \notin {"start", "filter"} =>
              /\ \A k \in DOMAIN rk.lines : ~is_junk(rk.lines[k].text)
              /\ JunkArgLines # <<>> =>
                    \E k \in DOMAIN rk.warnings :
                        rk.warnings[k] = WarnJunk(Len(JunkArgLines))
        /\ \A k \in DOMAIN rk.title_candidates : ~is_junk(rk.title_candidates[k].text)
        /\ \A k \in DOMAIN rk.author_candidates : ~is_junk(rk.author_candidates[k].text)
        /\ rk.result.title # NoText => ~is_junk(rk.result.title)
        /\ rk.result.author # NoText => ~is_junk(rk.result.author)

\* The state in which rank_candidates has just merged the lines it kept.
JustMerged == rk.pc = "score" /\ rk.settings.merge_adjacent_lines

\* C11: merge_adjacent_lines is idempotent: applied to its own output it
\* returns that output unchanged, no pair merged, no record added or removed.
C11_MergeIdempotent ==
    JustMerged => merge_adjacent_lines(rk.lines) = rk.lines

\* No line is left to score: none survived the validity filter, or the junk
\* filter removed every line that did.
NothingToRank ==
    \/ ValidArgLines = <<>>
    \/ rk.settings.junk_filter /\ Len(JunkArgLines) = Len(ValidArgLines)

\* C19: if no line survives the validity filter, or the junk filter removes
\* every line, rank_candidates returns no title, no author, confidence
\* exactly 0, empty title and author candidate lists, and at least one
\* warning.
C19_EmptyResultWithWarning ==
    RankDone /\ NothingToRank =>
        /\ rk.result.title = NoText
        /\ rk.result.author = NoText
        /\ rk.result.confidence.num = 0
        /\ rk.result.candidates.title = <<>>
        /\ rk.result.candidates.author = <<>>
        /\ rk.result.warnings # <<>>

\* C19's case: a call whose lines are valid and all junk, returned with the
\* junk filter on.
C19_Witness ==
    /\ RankDone
    /\ rk.settings.junk_filter
    /\ ValidArgLines # <<>>
    /\ Len(JunkArgLines) = Len(ValidArgLines)

\* A top list is in non-increasing score order, and of two entries with the
\* same score the line scanned earlier comes first.
OrderedStably(top) ==
    \A a, b \in DOMAIN top :
        a < b => \/ top[a].score > top[b].score
                 \/ top[a].score = top[b].score /\ top[a].line < top[b].line

\* The candidates emitted are those of the top list, entry by entry.
EmittedFrom(candidates, top) ==
    /\ Len(candidates) = Len(top)
    /\ \A k \in DOMAIN top : candidates[k].score = top[k].score
                               /\ candidates[k].bbox = rk.lines[top[k].line].bbox

\* C20: rank_candidates emits at most 5 title and at most 5 author
\* candidates, each list in non-increasing score order with equal scores in
\* scan order, and the best title and best author it picks first are the
\* first entries of these lists.
C20_TopFiveStableOrder ==
    rk.pc \in {"identity", "overlap", "swap", "confidence", "done"} =>
        /\ Len(rk.title_candidates) <= TopN
        /\ Len(rk.author_candidates) <= TopN
        /\ Len(rk.title_candidates) = Min2(TopN, Len(rk.lines))
        /\ Len(rk.author_candidates) = Min2(TopN, Len(rk.lines))
        /\ OrderedStably(rk.top_title_candidates)
        /\ OrderedStably(rk.top_author_candidates)
        /\ EmittedFrom(rk.title_candidates, rk.top_title_candidates)
        /\ EmittedFrom(rk.author_candidates, rk.top_author_candidates)
        /\ RankDone => /\ rk.result.candidates.title = rk.title_candidates
                       /\ rk.result.candidates.author = rk.author_candidates
        /\ rk.pc = "identity" =>
              /\ rk.best_title = IF rk.top_title_candidates = <<>> THEN 0
                                 ELSE rk.top_title_candidates[1].line
              /\ rk.best_author = IF rk.top_author_candidates = <<>> THEN 0
                                  ELSE rk.top_author_candidates[1].line

\* C20's case: more than five lines were scored, two of the title
\* candidates kept have the same score, and the call has returned.
C20_Witness ==
    /\ RankDone
    /\ Len(rk.lines) > TopN
    /\ Len(rk.result.candidates.title) = TopN
    /\ \E a, b \in DOMAIN rk.top_title_candidates :
          a < b /\ rk.top_title_candidates[a].score = rk.top_title_candidates[b].score

\* The overlap guard is about to run on a title and an author that overlap,
\* and its first loop finds a title runner-up clear of the author.
TitleRunnerUpSwappedIn ==
    /\ rk.pc = "overlap"
    /\ rk.best_title # 0
    /\ rk.best_author # 0
    /\ iou_above(calculate_bbox_iou(rk.lines[rk.best_title].bbox,
                                    rk.lines[rk.best_author].bbox))
    /\ \E k \in 2..Len(rk.top_title_candidates) :
           iou_below(calculate_bbox_iou(rk.lines[rk.top_title_candidates[k].line].bbox,
                                        rk.lines[rk.best_author].bbox))

\* C22: the author runner-ups are searched only if title and author still
\* overlap after the title runner-ups were searched: once a title runner-up
\* clear of the author has been swapped in, the overlap guard leaves the
\* chosen author (its line record) unchanged.
C22_AuthorKeptAfterTitleSwap ==
    [][TitleRunnerUpSwappedIn => rk.lines[rk'.best_author] = rk.lines[rk.best_author]]_vars

\* The condition of the swap with the score test as "at least": the chosen
\* title is person-like above 0.6, the chosen author below 0.3, and the top
\* author score is at least 0.8 times the top title score.
SwapExpected ==
    /\ rk.best_title # 0
    /\ rk.best_author # 0
    /\ float_gt(person_like_score(rk.lines[rk.best_title].text,
                                  rk.lines[rk.best_title].tokens), 6)
    /\ float_lt(person_like_score(rk.lines[rk.best_author].text,
                                  rk.lines[rk.best_author].tokens), 3)
    /\ 5 * rk.top_author_candidates[1].score >= 4 * rk.top_title_candidates[1].score

\* The swap step exchanged title and author and appended its warning.
SwapApplied ==
    /\ rk'.best_title = rk.best_author
    /\ rk'.best_author = rk.best_title
    /\ rk'.warnings = Append(rk.warnings, WarnSwap)

\* The swap step changed neither the choice nor the warnings.
SwapNotApplied ==
    /\ rk'.best_title = rk.best_title
    /\ rk'.best_author = rk.best_author
    /\ rk'.warnings = rk.warnings

\* The same with the score test left out: the swap step does one or the other.
SwapAllOrNothing ==
    [][rk.pc = "swap" => SwapApplied \/ SwapNotApplied]_vars

\* C23: the swap step exchanges title and author exactly when the title's
\* person-likeness exceeds 0.6, the author's is below 0.3 and the top author
\* score is at least 0.8 times the top title score; it appends the swap
\* warning exactly when it swaps (no earlier step emits it); and the guards
\* are not run again: the result carries the choice the swap step left.
C23_SwapExactlyWhen ==
    /\ [][rk.pc = "swap" => IF SwapExpected THEN SwapApplied ELSE SwapNotApplied]_vars
    /\ [](rk.pc \in {"start", "filter", "score", "select", "build", "identity", "overlap", "swap"}
             => \A k \in DOMAIN rk.warnings : rk.warnings[k] # WarnSwap)
    /\ [][rk.pc = "swap" =>
             /\ rk'.pc = "confidence"
             /\ rk'.lines = rk.lines]_vars
    /\ [][rk.pc = "confidence" =>
             /\ rk'.pc = "done"
             /\ rk'.result.title =
                    IF rk.best_title # 0 THEN rk.lines[rk.best_title].text ELSE NoText
             /\ rk'.result.author =
                    IF rk.best_author # 0 THEN rk.lines[rk.best_author].text ELSE NoText
             /\ rk'.result.warnings = rk.warnings]_vars

\* The list rank_candidates hands to merge_adjacent_lines in its next step.
MergeInput ==
    IF rk.settings.junk_filter
    THEN SelectSeq(rk.lines, LAMBDA l : ~is_junk(l.text))
    ELSE rk.lines

\* The tokens of all records of a list, in order.
AllTokens(lines) == flatten([k \in 1..Len(lines) |-> lines[k].tokens])

\* This step merges the lines.
Merges == rk.pc = "filter" /\ rk.settings.merge_adjacent_lines

\* C24: merge_adjacent_lines loses no line: the tokens of its output records,
\* in order, are the tokens of its input lines, in order.
C24_MergeLosesNoLine ==
    [][Merges => AllTokens(rk'.lines) = AllTokens(MergeInput)]_vars

\* The union of two boxes.
UnionBox(bbox1, bbox2) ==
    << Min2(bbox1[1], bbox2[1]), Min2(bbox1[2], bbox2[2]),
       Max2(bbox1[3], bbox2[3]), Max2(bbox1[4], bbox2[4]) >>

\* Record m of the merged list was made of the two input lines a and b.
MergedOf(m, a, b) ==
    /\ m \notin Range(MergeInput)
    /\ m.text = a.text \o <<" ">> \o b.text

\* The box and the tokens of m are those of its parents taken together.
BoxAndTokensOfParents(m, a, b) ==
    /\ m.bbox = UnionBox(a.bbox, b.bbox)
    /\ m.tokens = a.tokens \o b.tokens
    /\ m.word_count = Len(m.tokens)

\* Height and centre of m are those normalize_ocr gives a line with the box
\* of m (the lines given to the ranker come with no image size).
FeaturesOfOwnBox(m) ==
    /\ m.height = m.bbox[4] - m.bbox[2]
    /\ m.center_x = center_norm(m.bbox[1], m.bbox[3], DefaultImageSide)
    /\ m.center_y = center_norm(m.bbox[2], m.bbox[4], DefaultImageSide)

\* The part of C25 about box, tokens and word count.
MergedBoxAndTokens ==
    [][Merges =>
         \A k \in DOMAIN rk'.lines : \A a, b \in DOMAIN MergeInput :
             (a < b /\ MergedOf(rk'.lines[k], MergeInput[a], MergeInput[b]))
                 => BoxAndTokensOfParents(rk'.lines[k], MergeInput[a], MergeInput[b])]_vars

\* C25: a record made by merging two lines has its box, tokens and word
\* count from both parents, and its height and centre recomputed from the
\* merged box in the units of the normalizer: height y2 - y1, centre
\* normalized to [0,1].
C25_MergedFeaturesRecomputed ==
    [][Merges =>
         \A k \in DOMAIN rk'.lines : \A a, b \in DOMAIN MergeInput :
             (a < b /\ MergedOf(rk'.lines[k], MergeInput[a], MergeInput[b]))
                 => /\ BoxAndTokensOfParents(rk'.lines[k], MergeInput[a], MergeInput[b])
                    /\ FeaturesOfOwnBox(rk'.lines[k])]_vars

(***************************************************************************)
(* Further claims about verification, checked under SpecVerify.            *)
(***************************************************************************)

\* C16: a provider name that is unknown, or that already appeared earlier in
\* verify_provider_order, is skipped: each known provider is invoked at most
\* once per call, and an unknown name causes no query and no error.
C16_EachProviderAtMostOnce ==
    /\ \A a, b \in DOMAIN vc.invoked : vc.invoked[a] = vc.invoked[b] => a = b
    /\ \A a \in DOMAIN vc.invoked : IsKnownProvider(vc.invoked[a])
    /\ \A k \in DOMAIN vc.all_queries : IsKnownProvider(vc.all_queries[k].provider)
    /\ ~vc.raised

\* C16 without the part about repeated names: only known providers are
\* invoked or queried, and no exception leaves the call.
UnknownNamesAreSkipped ==
    /\ \A a \in DOMAIN vc.invoked : IsKnownProvider(vc.invoked[a])
    /\ \A k \in DOMAIN vc.all_queries : IsKnownProvider(vc.all_queries[k].provider)
    /\ ~vc.raised

\* The notes that report a provider failure.
FailureNotes ==
    {NoteTimeout(p) : p \in {GOOGLE, OPENLIB}}
        \cup {NoteError(p) : p \in {GOOGLE, OPENLIB}}
        \cup {NoteTitleOnlyError(p) : p \in {GOOGLE, OPENLIB}}

\* C17: when a provider call failed or timed out and no provider matched, the
\* call returns attempted = true and matched = false, and the notes of the
\* result hold a note for the failure beside the note that no match was
\* found: provider errors are never dropped from the notes.
C17_FailureNotesKept ==
    VerifyDone /\ vc.result.attempted /\ ~vc.result.matched
        /\ (SomeQueryFailed \/ SomeProviderRaised) =>
            /\ \E k \in DOMAIN vc.result.notes : vc.result.notes[k] = NoteNoMatch
            /\ \E k \in DOMAIN vc.result.notes : vc.result.notes[k] \in FailureNotes

\* This step sends the title-only request of the provider that is running.
TitleOnlyIssued == vc.pc = "title_only" /\ vc'.issued = vc.issued + 1

\* A provider call sends at most two requests.
AtMostTwoQueriesPerProvider == vc.p_issued <= 2

\* The title-only request is sent only for a title and a best score below 0.7.
TitleOnlyNeedsTitleAndLowScore ==
    [][TitleOnlyIssued => Truthy(vc.title) /\ vc.p_best_score < TitleOnlyThreshold]_vars

\* C21: a provider call sends at most two requests and never more than the
\* remaining budget it was given, and it sends the title-only request only
\* for a title, a best score below 0.7, and fewer requests sent so far than
\* its budget, a strict request that failed or timed out counting as sent.
C21_ProviderQueriesWithinBudget ==
    /\ [](/\ vc.p_issued <= 2
          /\ vc.p_issued <= Max2(0, vc.p_given))
    /\ [][TitleOnlyIssued =>
             /\ Truthy(vc.title)
             /\ vc.p_best_score < TitleOnlyThreshold
             /\ vc.p_issued < vc.p_max_queries]_vars

\* verify_candidates was called with an author and no title, and has returned.
AuthorOnlyDone == VerifyDone /\ ~Truthy(vc.title) /\ Truthy(vc.author)

\* No request was sent, the loop ran through the whole provider order and
\* called each known provider of it, and the result is an attempt without a
\* match and with an empty query log.
NothingAskedAllVisited ==
    /\ vc.issued = 0
    /\ vc.i = Len(vc.provider_order) + 1
    /\ vc.invoked = SelectSeq(vc.provider_order, IsKnownProvider)
    /\ vc.result.attempted
    /\ ~vc.result.matched
    /\ vc.result.debug.queries = <<>>

\* The statement of C29 as it stands, for any query budget.
C29_AuthorOnlyAsksNothing == AuthorOnlyDone => NothingAskedAllVisited

\* C29: called with an author but no title and a query budget of at least
\* one, verify_candidates sends no request (the strict query needs both
\* fields, the title-only query a title), still visits every provider of the
\* order, and returns attempted, not matched, with an empty query log.  With
\* a budget of zero or less it sends no request either and returns the same
\* result, but visits no provider.
C29_AuthorOnlyAsksNothingWithBudget ==
    AuthorOnlyDone =>
        IF vc.settings.max_verify_queries >= 1
        THEN NothingAskedAllVisited
        ELSE /\ vc.issued = 0
             /\ vc.invoked = <<>>
             /\ vc.result.attempted
             /\ ~vc.result.matched
             /\ vc.result.debug.queries = <<>>

\* C29's case: an author-only call with a budget that visited two providers.
C29_Witness ==
    /\ AuthorOnlyDone
    /\ vc.settings.max_verify_queries >= 1
    /\ Len(vc.invoked) = 2

(***************************************************************************)
(*                 THE ENDPOINTS  (routers/parse.py)                       *)
(*                                                                         *)
(* A request runs normalize_ocr, rank_candidates and verify_candidates     *)
(* one after the other.  The endpoint's record ep holds the locals of the  *)
(* handler; the three calls run in the records nz, rk and vc, by the       *)
(* actions of the components above.                                        *)
(*                                                                         *)
(* Confidence: the ranker's confidence is num / den; match_confidence is   *)
(* in units of 0.0001.  With den = 320000 * h the boosted confidence       *)
(* num / den + 0.3 * match_confidence is (5 * num + 48 * h * mc) over      *)
(* 5 * den.                                                                 *)
(***************************************************************************)

\* ---- bounds of the endpoint model ----

\* Most items in a batch request.
MaxBatchItems == 3

\* ---- settings.py: the deployment's settings ----

Settings(parser_max_lines, parser_verify_default, max_batch_size) ==
    [parser_max_lines |-> parser_max_lines,
     parser_verify_default |-> parser_verify_default,
     max_batch_size |-> max_batch_size]

\* Deployments with a line cap and a batch ceiling small enough for a
\* request of the model to exceed them, and one whose line cap is the number
\* of lines of the longest document.
Deployments == {Settings(1, TRUE, 1), Settings(2, FALSE, 2), Settings(3, TRUE, 2)}

\* ---- models.py: ParseSettings ----

ParseSettingsDefaults ==
    [conf_min_word |-> 30, conf_min_line |-> 35, max_lines_considered |-> 80,
     merge_adjacent_lines |-> TRUE, junk_filter |-> TRUE, verify |-> TRUE,
     verify_provider_order |-> DefaultOrder, max_verify_queries |-> 6]

\* ParseSettings(**given): the fields the request gives, the defaults for the
\* others, and the names of the fields given (model_fields_set).
ParseSettings(given) ==
    [f \in DOMAIN ParseSettingsDefaults \cup {"fields_set"} |->
        IF f = "fields_set" THEN DOMAIN given
        ELSE IF f \in DOMAIN given THEN given[f]
        ELSE ParseSettingsDefaults[f]]

\* "settings": null, or no settings at all.
NoSettings == [isnone |-> TRUE]

\* ---- the requests ----

\* OCRInput with its request_id.
OCRRequest(request_id, image, chunks) ==
    [request_id |-> request_id, image |-> image, chunks |-> chunks]

\* An image whose width and height are integers beyond the range of a float.
HugeImage == [isnone |-> FALSE, width |-> 0, height |-> 0, huge |-> TRUE]

\* Three lines that are kept.
ChunksCover == Chunks(<<Block(<<Paragraph(<<LineDune, LinePadded, LineFromWords>>)>>)>>)

\* A line that is passed over and one that is kept.
ChunksTitleOnly == Chunks(<<Block(<<Paragraph(<<LineEmpty>>), Paragraph(<<LineDune>>)>>)>>)

\* "x / image_width" (normalize.py lines 99-100) raises OverflowError when
\* the int does not fit a float: normalize_ocr raises at the first line it
\* keeps.
NormalizeRaises(ocr) ==
    /\ ocr.image = HugeImage
    /\ ~ocr.chunks.isnone
    /\ \E k \in DOMAIN DocOrder(ocr.chunks.blocks) :
          ~line_skipped(LineAt(ocr, DocOrder(ocr.chunks.blocks)[k]))

\* The str a text of the ranker is, or None.
RECURSIVE str(_)
str(text) ==
    IF text = NoText THEN NONE
    ELSE IF text = <<>> THEN ""
    ELSE Head(text) \o str(Tail(text))

\* ---- the responses ----

ParseError(code, status_code) == [code |-> code, status_code |-> status_code]

NoError == ParseError("", 200)

\* Verification(attempted=False, matched=False)
NotVerified == Verification(FALSE, FALSE, NONE, NoFloat, NoCanonical, <<>>, NoDebug)

\* ParseResponse and BatchItemResponse have the same fields.
ParseResponse(upstream_request_id, title, author, confidence, method, candidates, verification, warnings) ==
    [upstream_request_id |-> upstream_request_id, title |-> title, author |-> author,
     confidence |-> confidence, method |-> method, candidates |-> candidates,
     verification |-> verification, warnings |-> warnings]

NoResponse ==
    ParseResponse("", NoText, NoText, Fraction(0, 1), MethodInfo,
                  [title |-> <<>>, author |-> <<>>], NotVerified, <<>>)

\* "x if x else None" for the ranker's title and author.
text_or_none(text) == IF text = <<>> THEN NoText ELSE text

\* boosted without the cap at 1.
boosted_Uncapped(confidence, verification_result) ==
    IF verification_result.matched /\ verification_result.match_confidence > 0
    THEN LET h == confidence.den \div (20000 * ConfUnit)
         IN  Fraction(5 * confidence.num
                        + 3 * ConfUnit * h * verification_result.match_confidence,
                      5 * confidence.den)
    ELSE confidence

\* Lines 80-84: the boosted confidence, confidence + 0.3 * match_confidence
\* capped at 1.  A confidence of the scoring stages has den = 20000 *
\* ConfUnit * h, and the sum is taken over 5 * den; the confidence of the
\* early return is 0 / 1, and the sum is taken over 100000.
boosted(confidence, verification_result) ==
    IF verification_result.matched /\ verification_result.match_confidence > 0
    THEN IF confidence.den % (20000 * ConfUnit) = 0
         THEN LET h == confidence.den \div (20000 * ConfUnit)
                  sum5 == 5 * confidence.num
                            + 3 * ConfUnit * h * verification_result.match_confidence
              IN  Fraction(Min2(5 * confidence.den, sum5), 5 * confidence.den)
         ELSE LET total == 100000 * confidence.num
                            + 3 * confidence.den * verification_result.match_confidence
              IN  Fraction(Min2(100000 * confidence.den, total), 100000 * confidence.den)
    ELSE confidence

\* ---- the state of one request ----

ParseRequest(ocr, settings) == [ocr |-> ocr, settings |-> settings]

BatchItem(ocr, settings) == [ocr |-> ocr, settings |-> settings]

BatchRequest(items, settings) == [items |-> items, settings |-> settings]

\* A request before the first statement of its handler.  The fields are the
\* deployment's settings, the request body (parse_req or batch_req), the
\* locals of the handler (effective_settings, results, i the position of the
\* for loop of parse_batch), what the handler returned (response, or the
\* BatchResponse's items in results) and the ParseError it raised.
EndpointCall(handler, settings, parse_req, batch_req) ==
    [pc |-> handler,
     handler |-> handler,
     settings |-> settings,
     parse_req |-> parse_req,
     batch_req |-> batch_req,
     effective_settings |-> ParseSettings(<<>>),
     results |-> <<>>, i |-> 1,
     response |-> NoResponse,
     error |-> NoError]

NoParseRequest == ParseRequest(OCRRequest("", NoImage, NoChunks), NoSettings)

NoBatchRequest == BatchRequest(<<>>, NoSettings)

\* ---- parse ----

\* Lines 36-41: the request's settings with the deployment's applied.
merge_settings(requested, settings) ==
    LET effective == IF requested = NoSettings THEN ParseSettings(<<>>) ELSE requested
        capped == [effective EXCEPT !.max_lines_considered =
                      Min2(effective.max_lines_considered, settings.parser_max_lines)]
    IN  IF ~capped.verify
        THEN [capped EXCEPT !.verify = settings.parser_verify_default]
        ELSE capped

\* Lines 120-127.
parse_failed(e) ==
    [e EXCEPT !.pc = "done", !.error = ParseError("parse_failed", 500)]

\* Lines 36-53, up to the call of normalize_ocr.
parse_enter(e) ==
    LET effective_settings == merge_settings(e.parse_req.settings, e.settings)
    IN  IF NormalizeRaises(e.parse_req.ocr)
        THEN parse_failed([e EXCEPT !.effective_settings = effective_settings])
        ELSE [e EXCEPT !.pc = "parse_normalize",
                       !.effective_settings = effective_settings]

\* parse_return with the canonical title (named by its hit) and no author
\* in the response of a match.
parse_return_Canonical(e, ranked, verification_result) ==
    [e EXCEPT
        !.pc = "done",
        !.response = ParseResponse(e.parse_req.ocr.request_id,
                                   IF verification_result.matched
                                   THEN <<verification_result.canonical.source_id>>
                                   ELSE text_or_none(ranked.title),
                                   IF verification_result.matched
                                   THEN NoText
                                   ELSE text_or_none(ranked.author),
                                   boosted(ranked.confidence, verification_result),
                                   ranked.method, ranked.candidates,
                                   verification_result, ranked.warnings)]

\* Lines 75-98 and 118: the response.
parse_return(e, ranked, verification_result) ==
    [e EXCEPT
        !.pc = "done",
        !.response = ParseResponse(e.parse_req.ocr.request_id,
                                   text_or_none(ranked.title),
                                   text_or_none(ranked.author),
                                   boosted(ranked.confidence, verification_result),
                                   ranked.method, ranked.candidates,
                                   verification_result, ranked.warnings)]

\* ---- the actions of /parse ----

ParseEnter ==
    /\ ep.pc = "parse"
    /\ ep' = parse_enter(ep)
    /\ nz' = IF NormalizeRaises(ep.parse_req.ocr) THEN nz
             ELSE NormalizeCall(ep.parse_req.ocr,
                                merge_settings(ep.parse_req.settings, ep.settings)
                                    .max_lines_considered)
    /\ UNCHANGED <<rk, vc>>

\* Line 58: normalize_ocr has returned and rank_candidates is called.
ParseRank ==
    /\ ep.pc = "parse_normalize"
    /\ nz.pc = "done"
    /\ rk' = RankCall(nz.result, ep.effective_settings.junk_filter,
                      ep.effective_settings.merge_adjacent_lines)
    /\ ep' = [ep EXCEPT !.pc = "parse_rank"]
    /\ UNCHANGED <<nz, vc>>

\* Lines 64-69: rank_candidates has returned and verify_candidates is called.
ParseVerify ==
    /\ ep.pc = "parse_rank"
    /\ rk.pc = "done"
    /\ ep.effective_settings.verify
    /\ vc' = VerifyCall(str(rk.result.title), str(rk.result.author),
                        ep.effective_settings.verify_provider_order,
                        ep.effective_settings.max_verify_queries)
    /\ ep' = [ep EXCEPT !.pc = "parse_verify"]
    /\ UNCHANGED <<nz, rk>>

\* Lines 70-98: rank_candidates has returned and verification is off.
ParseNoVerify ==
    /\ ep.pc = "parse_rank"
    /\ rk.pc = "done"
    /\ ~ep.effective_settings.verify
    /\ ep' = parse_return(ep, rk.result, NotVerified)
    /\ UNCHANGED <<nz, rk, vc>>

\* Lines 73-98: verify_candidates has returned.
ParseReturn ==
    /\ ep.pc = "parse_verify"
    /\ vc.pc = "done"
    /\ ep' = IF vc.raised THEN parse_failed(ep) ELSE parse_return(ep, rk.result, vc.result)
    /\ UNCHANGED <<nz, rk, vc>>

\* ---- parse_batch ----

\* parse_batch_enter without the size check.
parse_batch_enter_NoLimit(e) ==
    [e EXCEPT !.pc = "batch_item", !.results = <<>>, !.i = 1]

\* Lines 136-144: the size check.
parse_batch_enter(e) ==
    IF Len(e.batch_req.items) > e.settings.max_batch_size
    THEN [e EXCEPT !.pc = "done", !.error = ParseError("batch_too_large", 400)]
    ELSE [e EXCEPT !.pc = "batch_item", !.results = <<>>, !.i = 1]

\* Line 147: item.settings or batch_req.settings or ParseSettings().
item_settings(item, batch_req) ==
    IF item.settings # NoSettings THEN item.settings
    ELSE IF batch_req.settings # NoSettings THEN batch_req.settings
    ELSE ParseSettings(<<>>)

\* Lines 195-211: the response that stands for an item whose pipeline raised.
error_placeholder(item) ==
    ParseResponse(item.ocr.request_id, NoText, NoText, Fraction(0, 1),
                  [ranker |-> "error", verifier |-> "none", fallback |-> "none"],
                  [title |-> <<>>, author |-> <<>>], NotVerified,
                  <<Warning("Failed to parse", 0)>>)

\* Lines 177-193: the response of an item.
item_response(item, ranked, verification_result) ==
    ParseResponse(item.ocr.request_id, text_or_none(ranked.title),
                  text_or_none(ranked.author), ranked.confidence, ranked.method,
                  ranked.candidates, verification_result, ranked.warnings)

\* results.append(...) and the next turn of the for loop.
item_done(e, response) ==
    [e EXCEPT !.pc = "batch_item", !.results = Append(e.results, response), !.i = e.i + 1]

\* parse_batch_item without the try: the exception leaves parse_batch.
parse_batch_item_Unguarded(e) ==
    LET item == e.batch_req.items[e.i]
        effective_settings == item_settings(item, e.batch_req)
    IN  IF NormalizeRaises(item.ocr)
        THEN [e EXCEPT !.pc = "done", !.effective_settings = effective_settings,
                       !.error = ParseError("internal_error", 500)]
        ELSE [e EXCEPT !.pc = "batch_normalize",
                       !.effective_settings = effective_settings]

\* Lines 145-160: one item, up to the call of normalize_ocr.
parse_batch_item(e) ==
    LET item == e.batch_req.items[e.i]
        effective_settings == item_settings(item, e.batch_req)
    IN  IF NormalizeRaises(item.ocr)
        THEN item_done([e EXCEPT !.effective_settings = effective_settings],
                       error_placeholder(item))
        ELSE [e EXCEPT !.pc = "batch_normalize",
                       !.effective_settings = effective_settings]

\* Lines 213-215.
parse_batch_return(e) == [e EXCEPT !.pc = "done"]

\* ---- the actions of /parse-batch ----

BatchEnter ==
    /\ ep.pc = "parse_batch"
    /\ ep' = parse_batch_enter(ep)
    /\ UNCHANGED <<nz, rk, vc>>

BatchItemEnter ==
    /\ ep.pc = "batch_item"
    /\ ep.i <= Len(ep.batch_req.items)
    /\ ep' = parse_batch_item(ep)
    /\ nz' = IF NormalizeRaises(ep.batch_req.items[ep.i].ocr) THEN nz
             ELSE NormalizeCall(ep.batch_req.items[ep.i].ocr,
                                item_settings(ep.batch_req.items[ep.i], ep.batch_req)
                                    .max_lines_considered)
    /\ UNCHANGED <<rk, vc>>

\* Line 163.
BatchRank ==
    /\ ep.pc = "batch_normalize"
    /\ nz.pc = "done"
    /\ rk' = RankCall(nz.result, ep.effective_settings.junk_filter,
                      ep.effective_settings.merge_adjacent_lines)
    /\ ep' = [ep EXCEPT !.pc = "batch_rank"]
    /\ UNCHANGED <<nz, vc>>

\* Lines 167-172.
BatchVerify ==
    /\ ep.pc = "batch_rank"
    /\ rk.pc = "done"
    /\ ep.effective_settings.verify
    /\ vc' = VerifyCall(str(rk.result.title), str(rk.result.author),
                        ep.effective_settings.verify_provider_order,
                        ep.effective_settings.max_verify_queries)
    /\ ep' = [ep EXCEPT !.pc = "batch_verify"]
    /\ UNCHANGED <<nz, rk>>

\* Lines 173-193.
BatchNoVerify ==
    /\ ep.pc = "batch_rank"
    /\ rk.pc = "done"
    /\ ~ep.effective_settings.verify
    /\ ep' = item_done(ep, item_response(ep.batch_req.items[ep.i], rk.result, NotVerified))
    /\ UNCHANGED <<nz, rk, vc>>

\* Lines 177-193, or 195-211 if verify_candidates raised.
BatchItemReturn ==
    /\ ep.pc = "batch_verify"
    /\ vc.pc = "done"
    /\ ep' = IF vc.raised
             THEN item_done(ep, error_placeholder(ep.batch_req.items[ep.i]))
             ELSE item_done(ep, item_response(ep.batch_req.items[ep.i], rk.result, vc.result))
    /\ UNCHANGED <<nz, rk, vc>>

BatchReturn ==
    /\ ep.pc = "batch_item"
    /\ ep.i > Len(ep.batch_req.items)
    /\ ep' = parse_batch_return(ep)
    /\ UNCHANGED <<nz, rk, vc>>

\* ---- the requests drawn ----

OCRCover == OCRRequest("cover", NoImage, ChunksCover)

OCRTitleOnly == OCRRequest("title-only", NoImage, ChunksTitleOnly)

OCRHuge == OCRRequest("huge", HugeImage, ChunksCover)

OCREmpty == OCRRequest("empty", NoImage, NoChunks)

\* The settings a /parse request comes with.
RequestSettings ==
    {NoSettings,
     ParseSettings([verify |-> FALSE]),
     ParseSettings([max_lines_considered |-> 0, verify |-> FALSE]),
     ParseSettings([max_lines_considered |-> -1, verify |-> FALSE]),
     ParseSettings([max_lines_considered |-> 1, verify |-> FALSE]),
     ParseSettings([max_lines_considered |-> 3, max_verify_queries |-> 1]),
     ParseSettings([verify |-> TRUE, max_verify_queries |-> 2]),
     ParseSettings([verify_provider_order |-> <<UNKNOWN, OPENLIB>>,
                    max_verify_queries |-> 1]),
     ParseSettings([merge_adjacent_lines |-> FALSE, junk_filter |-> FALSE,
                    max_lines_considered |-> 2, max_verify_queries |-> 1])}

ParseRequests ==
    {ParseRequest(ocr, s) :
        ocr \in {OCRCover, OCRTitleOnly, OCRHuge, OCREmpty}, s \in RequestSettings}

\* The items of a batch: one that is not verified, one whose pipeline raises,
\* one that is verified with a single query, one under the batch's settings,
\* one with a title and an author that a provider can match.
BatchItems ==
    {BatchItem(OCRCover, ParseSettings([verify |-> FALSE])),
     BatchItem(OCRHuge, NoSettings),
     BatchItem(OCRTitleOnly, ParseSettings([verify_provider_order |-> <<OPENLIB>>,
                                            max_verify_queries |-> 1])),
     BatchItem(OCREmpty, NoSettings),
     BatchItem(OCRCover, ParseSettings([merge_adjacent_lines |-> FALSE,
                                        junk_filter |-> FALSE,
                                        max_lines_considered |-> 2,
                                        verify_provider_order |-> <<OPENLIB>>,
                                        max_verify_queries |-> 1]))}

BatchRequests ==
    {BatchRequest(items, s) :
        items \in SeqsUpTo(BatchItems, MaxBatchItems),
        s \in {NoSettings, ParseSettings([verify |-> FALSE])}}

\* ---- the service ----

NextService ==
    \/ ParseEnter
    \/ ParseRank
    \/ ParseVerify
    \/ ParseNoVerify
    \/ ParseReturn
    \/ BatchEnter
    \/ BatchItemEnter
    \/ BatchRank
    \/ BatchVerify
    \/ BatchNoVerify
    \/ BatchItemReturn
    \/ BatchReturn
    \/ NextNorm
    \/ NextRank
    \/ NextVerify

InitService ==
    /\ \E settings \in Deployments :
          \/ \E parse_req \in ParseRequests :
                ep = EndpointCall("parse", settings, parse_req, NoBatchRequest)
          \/ \E batch_req \in BatchRequests :
                ep = EndpointCall("parse_batch", settings, NoParseRequest, batch_req)
    /\ vc = VcIdle
    /\ nz = NzIdle
    /\ rk = RkIdle

SpecService == InitService /\ [][NextService]_vars

(***************************************************************************)
(* Claims about the endpoints, checked under SpecService.                  *)
(***************************************************************************)

IsParse == ep.handler = "parse"

IsBatch == ep.handler = "parse_batch"

EndpointDone == ep.pc = "done"

\* rank_candidates has been called for the request.
RankerCalled == rk # RkIdle

\* verify_candidates has been called for the request.
VerifierCalled == vc # VcIdle

\* C12: for every /parse request, whatever max_lines_considered it supplies
\* (0 and negative values included), the ranker is handed at most
\* parser_max_lines line records.
C12_LinesWithinGlobalCap ==
    IsParse /\ RankerCalled => Len(rk.arg_lines) <= ep.settings.parser_max_lines

\* The request gives the field itself.
Supplies(field) ==
    ep.parse_req.settings # NoSettings /\ field \in ep.parse_req.settings.fields_set

\* C13: a /parse request that sets verify = false is not verified whatever
\* the deployment's default: no provider is invoked, no query is issued, and
\* the response has verification.attempted = false and method.verifier =
\* "none"; the deployment's default decides only when the request leaves
\* verify unset.
C13_ExplicitVerifyOffWins ==
    IsParse =>
        /\ Supplies("verify") /\ ~ep.parse_req.settings.verify =>
              /\ ~VerifierCalled
              /\ EndpointDone /\ ep.error = NoError =>
                    /\ ~ep.response.verification.attempted
                    /\ ep.response.method.verifier = "none"
        /\ ~Supplies("verify") /\ EndpointDone /\ ep.error = NoError =>
              (VerifierCalled <=> ep.settings.parser_verify_default)

\* The first part of C13 under a deployment whose default is off.
ExplicitVerifyOffWinsWhenDefaultOff ==
    IsParse /\ ~ep.settings.parser_verify_default
        /\ Supplies("verify") /\ ~ep.parse_req.settings.verify => ~VerifierCalled

TooLarge == Len(ep.batch_req.items) > ep.settings.max_batch_size

\* C14: a batch with more items than max_batch_size is rejected as a whole
\* with the error batch_too_large (HTTP 400) before any item is processed:
\* nothing is normalized or ranked, no provider query is issued, and there
\* is no result.
C14_OversizedBatchRejected ==
    IsBatch /\ TooLarge =>
        /\ nz = NzIdle
        /\ rk = RkIdle
        /\ vc = VcIdle
        /\ ep.results = <<>>
        /\ ep.pc \in {"parse_batch", "done"}
        /\ EndpointDone => ep.error = ParseError("batch_too_large", 400)

\* C14's case: a batch of three items rejected by a deployment that takes
\* two.
C14_Witness ==
    /\ IsBatch
    /\ EndpointDone
    /\ Len(ep.batch_req.items) = 3
    /\ ep.settings.max_batch_size = 2
    /\ ep.error.code = "batch_too_large"

\* The placeholder of an item whose pipeline raised.
IsPlaceholder(r) ==
    /\ r.title = NoText
    /\ r.author = NoText
    /\ r.confidence.num = 0
    /\ r.method.ranker = "error"
    /\ ~r.verification.attempted

\* The result k of a batch stands at the place of item k, and it is the
\* placeholder exactly if that item's pipeline raises.
ResultOfItem(k) ==
    /\ ep.results[k].upstream_request_id = ep.batch_req.items[k].ocr.request_id
    /\ IF NormalizeRaises(ep.batch_req.items[k].ocr)
       THEN IsPlaceholder(ep.results[k])
       ELSE ep.results[k].method.ranker = "heuristic_v1"

\* A step that adds the result of item i: the results so far stay as they
\* are, and the new one is the placeholder, or what the ranker and the
\* verifier returned for the lines normalize_ocr made of this item.
AddsOwnResult ==
    /\ Len(ep'.results) = Len(ep.results) + 1
    /\ SubSeq(ep'.results, 1, Len(ep.results)) = ep.results
    /\ LET item == ep.batch_req.items[ep.i]
           new == ep'.results[Len(ep'.results)]
       IN  \/ NormalizeRaises(item.ocr) /\ new = error_placeholder(item)
           \/ /\ ~NormalizeRaises(item.ocr)
              /\ nz.ocr = item.ocr
              /\ rk.arg_lines = nz.result
              /\ rk.pc = "done"
              /\ new.title = text_or_none(rk.result.title)
              /\ new.author = text_or_none(rk.result.author)
              /\ new.confidence = rk.result.confidence
              /\ new.candidates = rk.result.candidates
              /\ new.warnings = rk.result.warnings
              /\ new.verification = IF ep.pc = "batch_verify" THEN vc.result
                                    ELSE NotVerified

\* C15: an accepted batch is answered with one result per item, in the order
\* of the items; an item whose pipeline raises gets the error placeholder at
\* its own place, and the failure changes neither the presence nor the
\* content of another item's result.
C15_OneResultPerItemInOrder ==
    /\ [](IsBatch /\ ~TooLarge =>
            /\ ep.error = NoError
            /\ ep.pc # "parse_batch" => Len(ep.results) = ep.i - 1
            /\ EndpointDone => Len(ep.results) = Len(ep.batch_req.items)
            /\ \A k \in DOMAIN ep.results : ResultOfItem(k))
    /\ [][IsBatch /\ ~TooLarge => (ep'.results = ep.results \/ AddsOwnResult)]_vars

\* C15's case: a batch of two answered, whose first item raised and whose
\* second item has an author.
C15_Witness ==
    /\ IsBatch
    /\ EndpointDone
    /\ Len(ep.results) = 2
    /\ IsPlaceholder(ep.results[1])
    /\ ep.results[2].author # NoText

\* A confidence in units of 1 / unit, for a unit its denominator divides.
InUnit(confidence, unit) == confidence.num * (unit \div confidence.den)

ItemRequested ==
    LET item == ep.batch_req.items[ep.i]
    IN  IF item.settings # NoSettings THEN item.settings ELSE ep.batch_req.settings

\* This step starts the pipeline for an item of a batch.
ItemStarts ==
    /\ ep.pc = "batch_item"
    /\ ep.i <= Len(ep.batch_req.items)
    /\ ~NormalizeRaises(ep.batch_req.items[ep.i].ocr)

\* This step appends the response of an item whose pipeline did not raise,
\* built from the ranking in rk and the verification verdict.
ItemResponds(verdict) ==
    \/ ep.pc = "batch_rank" /\ rk.pc = "done" /\ ~ep.effective_settings.verify
          /\ verdict = NotVerified
    \/ ep.pc = "batch_verify" /\ vc.pc = "done" /\ ~vc.raised /\ verdict = vc.result

\* The response /parse builds from a ranking and a verification.
ParseWouldReturn(ocr, ranked, verdict) ==
    ParseResponse(ocr.request_id, text_or_none(ranked.title), text_or_none(ranked.author),
                  boosted(ranked.confidence, verdict), ranked.method,
                  ranked.candidates, verdict, ranked.warnings)

\* A batch item runs under the settings /parse would run it under.
BatchSettingsAsParse ==
    [][ItemStarts =>
          ep'.effective_settings = merge_settings(ItemRequested, ep.settings)]_vars

\* A batch item's response is the one /parse builds from the same ranking and
\* the same verification.
BatchResponseAsParse ==
    [][\A verdict \in {NotVerified, vc.result} :
          ItemResponds(verdict) =>
              LET mine == ep'.results[Len(ep'.results)]
                  theirs == ParseWouldReturn(ep.batch_req.items[ep.i].ocr, rk.result, verdict)
              IN  /\ mine.title = theirs.title
                  /\ mine.author = theirs.author
                  /\ mine.confidence = theirs.confidence
                  /\ mine.verification = theirs.verification]_vars

\* Title, author and verification of a batch item's response are those /parse
\* builds from the same ranking and the same verification.
BatchResponseAsParseButConfidence ==
    [][\A verdict \in {NotVerified, vc.result} :
          ItemResponds(verdict) =>
              LET mine == ep'.results[Len(ep'.results)]
                  theirs == ParseWouldReturn(ep.batch_req.items[ep.i].ocr, rk.result, verdict)
              IN  /\ mine.title = theirs.title
                  /\ mine.author = theirs.author
                  /\ mine.verification = theirs.verification]_vars

\* C27: a batch item goes through the pipeline of /parse: it runs under the
\* settings /parse derives from the same request settings (the line cap and
\* the verify default applied), and its title, author, confidence and
\* verification are those /parse returns for the same ranking and the same
\* verification (the confidence boost applied).
C27_BatchItemAsParse ==
    /\ [][ItemStarts =>
            ep'.effective_settings = merge_settings(ItemRequested, ep.settings)]_vars
    /\ [][\A verdict \in {NotVerified, vc.result} :
            ItemResponds(verdict) =>
                LET mine == ep'.results[Len(ep'.results)]
                    theirs == ParseWouldReturn(ep.batch_req.items[ep.i].ocr,
                                               rk.result, verdict)
                IN  /\ mine.title = theirs.title
                    /\ mine.author = theirs.author
                    /\ mine.confidence = theirs.confidence
                    /\ mine.verification = theirs.verification]_vars

\* A confidence is at least, or above, another whose denominator divides its
\* own.
AtLeast(c1, c2) == c1.den % c2.den = 0 /\ c1.num >= c2.num * (c1.den \div c2.den)

Above(c1, c2) == c1.den % c2.den = 0 /\ c1.num > c2.num * (c1.den \div c2.den)

\* C28: verification never changes what the ranker chose: whatever the
\* verification came to (not attempted, no match, match, a provider that
\* failed), title, author, candidate lists and warnings of a /parse response
\* are the ranker's, and its confidence is not below the ranker's.
C28_RankerChoiceKept ==
    IsParse /\ EndpointDone /\ ep.error = NoError =>
        /\ ep.response.title = rk.result.title
        /\ ep.response.author = rk.result.author
        /\ ep.response.candidates = rk.result.candidates
        /\ ep.response.warnings = rk.result.warnings
        /\ AtLeast(ep.response.confidence, rk.result.confidence)

\* C28's case: a response with a title and an author after a match that
\* raised the confidence.
C28_Witness ==
    /\ IsParse
    /\ EndpointDone
    /\ ep.response.verification.matched
    /\ ep.response.title # NoText
    /\ ep.response.author # NoText
    /\ Above(ep.response.confidence, rk.result.confidence)

\* Another case of C28: a response with a title after a request to a provider
\* failed and none matched.
ProviderFailedNoMatchCase ==
    /\ IsParse
    /\ EndpointDone
    /\ ep.response.verification.attempted
    /\ ~ep.response.verification.matched
    /\ vc.issued > Len(QueryEntries(vc.all_queries))
    /\ ep.response.title # NoText

(***************************************************************************)
(* Two /parse requests in one event loop, checked under SpecPair.           *)
(*                                                                          *)
(* vc is the pair of the requests' verify_candidates frames.  ep holds the  *)
(* module-level settings, the heap (the mutable objects of the process, by  *)
(* address: ParseSettings objects and the lists all_queries and top_hits)   *)
(* and the handler frame of each request.  A frame holds addresses, and a   *)
(* list is read and written through its address.  The event loop runs one   *)
(* request at a time and changes request only where the running one awaits  *)
(* a provider's response, or has returned.                                  *)
(***************************************************************************)

Requests == {1, 2}

\* An object of the heap.
Cell(kind, value) == [kind |-> kind, value |-> value]

\* new_object that hands out an object of the same kind that exists already.
new_object_Reused(heap, kind, value) ==
    IF \E a \in 1..Len(heap) : heap[a].kind = kind
    THEN [heap |-> heap, at |-> CHOOSE a \in 1..Len(heap) : heap[a].kind = kind]
    ELSE [heap |-> Append(heap, Cell(kind, value)), at |-> Len(heap) + 1]

\* "[]", "ParseSettings()" and the deserialisation of a request body: a new
\* object, at an address nothing else holds.
new_object(heap, kind, value) ==
    [heap |-> Append(heap, Cell(kind, value)), at |-> Len(heap) + 1]

\* The list at an address (0: the name is not bound yet).
list_at(heap, at) == IF at = 0 THEN <<>> ELSE heap[at].value

\* The frame of parse for one request, before its first statement: the
\* request body (parse_req.settings is an address, 0 for null), title and
\* author as rank_candidates returns them for the request's document, and the
\* locals effective_settings (an address) and verification_result.  The lists
\* of the request's verify_candidates call are named here by their addresses.
\* sent is the settings as the client sent them and outcomes the responses
\* the request has received so far.
PairCall(title, author, sent, settings_at) ==
    [pc |-> "parse",
     title |-> title, author |-> author,
     sent |-> sent, settings_at |-> settings_at,
     effective_settings_at |-> 0,
     all_queries_at |-> 0, top_hits_at |-> 0,
     verification_result |-> NoResult,
     outcomes |-> <<>>]

\* A verify_candidates frame with its two lists read from the heap.
deref(heap, c, v) ==
    [v EXCEPT !.all_queries = list_at(heap, c.all_queries_at),
              !.top_hits = list_at(heap, c.top_hits_at)]

\* The heap after the frame's appends to its two lists.
store(heap, c, v) ==
    IF c.all_queries_at = 0
    THEN heap
    ELSE [a \in 1..Len(heap) |->
            IF a = c.top_hits_at THEN Cell(heap[a].kind, v.top_hits)
            ELSE IF a = c.all_queries_at THEN Cell(heap[a].kind, v.all_queries)
            ELSE heap[a]]

\* The call is at "await client.get(...)".
AtAwait(v) ==
    \/ v.pc = "strict" /\ StrictGuard(v)
    \/ v.pc = "title_only" /\ TitleOnlyGuard(v)

\* What verify_candidates and the provider it called do next when no await
\* is next: the statements of VerifyEnter .. VerifyTitleOnlySkip.
verify_step(v) ==
    CASE v.pc = "call" -> verify_candidates_enter(v)
      [] v.pc = "loop" ->
            IF LoopIsOver(v) THEN verify_candidates_no_match(v)
            ELSE IF ~IsKnownProvider(v.provider_order[v.i]) THEN [v EXCEPT !.i = v.i + 1]
            ELSE verify_provider_enter(v)
      [] v.pc = "strict" -> [v EXCEPT !.pc = "title_only"]
      [] v.pc = "title_only" -> verify_provider_return(v)

\* The awaited response has come.
verify_resume(v, outcome) ==
    IF v.pc = "strict"
    THEN verify_provider_strict(v, outcome)
    ELSE verify_provider_title_only(v, outcome)

\* Request k holds the event loop: it has begun and is neither at an await
\* nor done.
Running(k) == ep.calls[k].pc = "parse_verify" /\ ~AtAwait(vc[k])

Other(k) == 3 - k

\* ---- the requests drawn ----

\* The settings.py values of the process.
PairDeployments == {Settings(3, TRUE, 2), Settings(3, FALSE, 2)}

\* The settings a request of the pair comes with.
PairSettings ==
    {NoSettings,
     ParseSettings([verify |-> FALSE]),
     ParseSettings([max_lines_considered |-> 5, verify_provider_order |-> <<OPENLIB>>,
                    max_verify_queries |-> 1])}

\* title and author of the ranker for a cover with both and for one with a
\* single line.
PairRanked == {<<"Dune", "Frank Herbert">>, <<NONE, "Dune">>}

\* The responses the providers give the pair.
PairOutcomes ==
    {[kind |-> "timeout", status |-> 0, hits |-> <<>>],
     [kind |-> "response", status |-> 200, hits |-> <<HitExact>>],
     [kind |-> "response", status |-> 200, hits |-> <<HitWeak>>]}

\* ---- the actions of a request ----

\* routers/parse.py lines 36-41 and 63-71: effective_settings is the
\* request's own settings object or a new ParseSettings(), the cap and the
\* verify default are written into it, and verify_candidates is called with
\* it (lines 43-58, normalize_ocr and rank_candidates, work on the request's
\* document alone).
PairParse(k) ==
    LET c == ep.calls[k]
        own == IF c.settings_at = 0
               THEN new_object(ep.heap, "ParseSettings", ParseSettings(<<>>))
               ELSE [heap |-> ep.heap, at |-> c.settings_at]
        effective_settings == merge_settings(own.heap[own.at].value, ep.settings)
        heap == [own.heap EXCEPT ![own.at] = Cell("ParseSettings", effective_settings)]
    IN  /\ c.pc = "parse"
        /\ ~Running(Other(k))
        /\ ep' = [ep EXCEPT
                    !.heap = heap,
                    !.calls[k] =
                        [c EXCEPT !.effective_settings_at = own.at,
                                  !.pc = IF effective_settings.verify
                                         THEN "parse_verify" ELSE "done",
                                  !.verification_result =
                                      IF effective_settings.verify
                                      THEN NoResult ELSE NotVerified]]
        /\ vc' = [vc EXCEPT ![k] =
                    IF effective_settings.verify
                    THEN VerifyCall(c.title, c.author,
                                    effective_settings.verify_provider_order,
                                    effective_settings.max_verify_queries)
                    ELSE @]
        /\ UNCHANGED <<nz, rk>>

\* verify_candidates runs on to its next await or to its return; lines 26-28
\* of verifier/__init__.py bind all_queries and top_hits to new lists.
PairVerifyStep(k) ==
    LET c == ep.calls[k]
        v == verify_step(deref(ep.heap, c, vc[k]))
        binds == vc[k].pc = "call" /\ v.pc = "loop"
        all_queries == new_object(ep.heap, "all_queries", <<>>)
        top_hits == new_object(all_queries.heap, "top_hits", <<>>)
        bound == [c EXCEPT !.all_queries_at = all_queries.at, !.top_hits_at = top_hits.at]
    IN  /\ c.pc = "parse_verify"
        /\ vc[k].pc # "done"
        /\ ~AtAwait(vc[k])
        /\ ~Running(Other(k))
        /\ vc' = [vc EXCEPT ![k] = v]
        /\ ep' = IF binds
                 THEN [ep EXCEPT !.heap = store(top_hits.heap, bound, v), !.calls[k] = bound]
                 ELSE [ep EXCEPT !.heap = store(ep.heap, c, v)]
        /\ UNCHANGED <<nz, rk>>

\* The response a request awaits comes, and the request runs on.
PairResume(k) ==
    LET c == ep.calls[k]
    IN  /\ c.pc = "parse_verify"
        /\ AtAwait(vc[k])
        /\ ~Running(Other(k))
        /\ \E outcome \in PairOutcomes :
              LET v == verify_resume(deref(ep.heap, c, vc[k]), outcome)
              IN  /\ vc' = [vc EXCEPT ![k] = v]
                  /\ ep' = [ep EXCEPT !.heap = store(ep.heap, c, v),
                                      !.calls[k].outcomes = Append(c.outcomes, outcome)]
        /\ UNCHANGED <<nz, rk>>

\* routers/parse.py line 64: verify_candidates has returned.
PairReturn(k) ==
    /\ ep.calls[k].pc = "parse_verify"
    /\ vc[k].pc = "done"
    /\ ep' = [ep EXCEPT !.calls[k].pc = "done",
                        !.calls[k].verification_result = vc[k].result]
    /\ UNCHANGED <<vc, nz, rk>>

NextPair ==
    \/ \E k \in Requests : PairParse(k)
    \/ \E k \in Requests : PairVerifyStep(k)
    \/ \E k \in Requests : PairResume(k)
    \/ \E k \in Requests : PairReturn(k)

InitPair ==
    /\ \E settings \in PairDeployments, r1 \in PairRanked, r2 \in PairRanked,
          s1 \in PairSettings, s2 \in PairSettings :
            LET o1 == IF s1 = NoSettings THEN [heap |-> <<>>, at |-> 0]
                      ELSE new_object(<<>>, "ParseSettings", s1)
                o2 == IF s2 = NoSettings THEN [heap |-> o1.heap, at |-> 0]
                      ELSE new_object(o1.heap, "ParseSettings", s2)
            IN  ep = [settings |-> settings,
                      heap |-> o2.heap,
                      calls |-> <<PairCall(r1[1], r1[2], s1, o1.at),
                                  PairCall(r2[1], r2[2], s2, o2.at)>>]
    /\ vc = <<VcIdle, VcIdle>>
    /\ nz = NzIdle
    /\ rk = RkIdle

SpecPair == InitPair /\ [][NextPair]_vars

\* ---- a request run alone ----

\* verify_candidates run from v to its return without another request in the
\* process, given the responses it receives; it stops at an await when the
\* responses are used up.
RECURSIVE run_alone(_, _)
run_alone(v, outcomes) ==
    IF v.pc = "done" THEN v
    ELSE IF AtAwait(v)
    THEN IF outcomes = <<>> THEN v
         ELSE run_alone(verify_resume(v, Head(outcomes)), Tail(outcomes))
    ELSE run_alone(verify_step(v), outcomes)

\* What request k has when it runs alone and receives the responses it has
\* received so far.
Alone(k) ==
    LET c == ep.calls[k]
        effective_settings == merge_settings(c.sent, ep.settings)
        v == IF effective_settings.verify
             THEN run_alone(VerifyCall(c.title, c.author,
                                       effective_settings.verify_provider_order,
                                       effective_settings.max_verify_queries),
                            c.outcomes)
             ELSE VcIdle
    IN  [queries_made |-> v.queries_made,
         all_queries |-> v.all_queries,
         top_hits |-> v.top_hits,
         effective_settings |-> effective_settings,
         result |-> IF effective_settings.verify THEN v.result ELSE NotVerified]

\* What request k has in the pair.
Interleaved(k) ==
    LET c == ep.calls[k]
    IN  [queries_made |-> vc[k].queries_made,
         all_queries |-> list_at(ep.heap, c.all_queries_at),
         top_hits |-> list_at(ep.heap, c.top_hits_at),
         effective_settings |-> ep.heap[c.effective_settings_at].value,
         result |-> IF c.pc = "done" THEN c.verification_result ELSE vc[k].result]

\* Request k has begun and is at an await or done.
Suspended(k) == ep.calls[k].pc # "parse" /\ ~Running(k)

\* C30: whenever a request of two interleaved ones is suspended at a
\* provider call or has returned, its query count, its query log, its top-hit
\* log, its effective settings and its result are those of the same request
\* run alone with the same provider responses.
C30_RequestsDoNotInterfere ==
    \A k \in Requests : Suspended(k) => Interleaved(k) = Alone(k)

\* Both requests are in flight at once, each past a first response and
\* awaiting a second, with an entry in each one's own logs.
C30_Witness ==
    \A k \in Requests :
        /\ ep.calls[k].pc = "parse_verify"
        /\ vc[k].pc = "title_only"
        /\ AtAwait(vc[k])
        /\ Len(ep.calls[k].outcomes) = 1
        /\ Interleaved(k).all_queries # <<>>
        /\ Interleaved(k).top_hits # <<>>

====
